---------------------------- MODULE Spec2Model ----------------------------
(***************************************************************************)
(* A model of TinyGolf's rendering core: the rasterized line (RL)          *)
(* primitive and the scanline rasterizer of rasterizer.py, the chunk       *)
(* geometry store of bake_chunk_data.py / scene.py, and the transformed    *)
(* rasterizer and the ball physics of scene.py.                            *)
(*                                                                         *)
(* The module holds several specifications over one set of variables; a    *)
(* specification leaves the variables of the other components at their     *)
(* constructed values:                                                     *)
(*   SpecRL        one RL, initialised for a segment and stepped           *)
(*   SpecChunk     ChunkData under add_loop / loop_add_edge /               *)
(*                 clear_geometry and endpoint queries                     *)
(*   SpecChunkCap  ChunkData filled to its capacity                        *)
(*   SpecPool      the RL pool of a ScanlineRasterizer filled to capacity  *)
(*   SpecRaster    a ScanlineRasterizer given a scene and rasterizing it   *)
(*   SpecTR        a TransformedRasterizer under its setters and draws     *)
(*   SpecW2S       a TransformedRasterizer asked for the screen point of   *)
(*                 a vertex it has submitted                               *)
(*   SpecSeek      one RL under rl_seek_s_to and rl_increment_s            *)
(*   SpecBall      a BallState advanced over a level                       *)
(*   SpecEndpoint  a BallState resolving a collision with two edges that   *)
(*                 meet at an endpoint, over every pair of normals         *)
(*   SpecRedraw    a ScanlineRasterizer asked for several pictures of the  *)
(*                 edges it was given once                                 *)
(*   SpecHole      a BallState captured by the hole and advanced until it  *)
(*                 stops; SpecHoleFair, the same with advance() called     *)
(*                 again and again                                         *)
(***************************************************************************)
EXTENDS Integers, Sequences, FiniteSets, TLC

VARIABLES
    \* --- one RL under test (SpecRL)
    seg,                \* the segment and variant handed to rl_init
    rlt,                \* the RL's eight packed fields, unpacked
    rl_steps,           \* rl_increment_s calls made on rlt since rl_init
    rl_call,            \* the last call made on rlt, and where rlt stood (SpecSeek)
    \* --- ChunkData (SpecChunk)
    arr_chunk_data,     \* array('h') of I_CHUNK_NUM_FIELDS * MAX_NUM_CHUNKS
    num_chunks,
    i_acd_last_loop,
    chunk_err,          \* the RuntimeError the last call raised, or "none"
    hist,               \* the calls that succeeded since the last clear_geometry
    chunk_q,            \* the last chunk_edge_get_endpoints call and its result
    chunk_calls,        \* build calls made so far
    \* --- ScanlineRasterizer (SpecPool, SpecRaster)
    num_rl,
    arr_ptr_rl_sorted,  \* the RL index; entry i stands for the RL it points to
    arr_region_insideness,
    arr_region_payload,
    sr_printed,         \* "allocating too many rl" lines printed by the last call
    sr_calls,           \* clear_edges and add_edge_line_fill calls made so far
    rz,                 \* rasterize_to_buffer: its arguments, locals and position
    buf,                \* the buffer handed to rasterize_to_buffer, cell by cell
    flushed,            \* the span flushed by the last step of the scan, if any
    drv,                \* the caller: which scene it submits and how far it is
    arr_region_fill0,   \* the fill tiles the rasterizer was constructed with:
    arr_region_fill1,   \* it reads them, their owner may rewrite them
    \* --- TransformedRasterizer (SpecTR)
    tr,                 \* the fields of the TransformedRasterizer
    tr_op,              \* the last method called on it
    tr_calls,           \* calls made on it so far
    tr_submitted,       \* whether the last call ran _set_rasterizer_geometry
    w2s,                \* the last vertex put through world_to_screen_f10 (SpecW2S)
    \* --- BallState (SpecBall)
    ball,               \* the fields of the BallState
    ball_call,          \* the last call made on it: for advance, how far it is;
                        \* the ball before it; and the time the ball has by
                        \* now spent near its average, as the caller sees it
    arr_chunk_normal_wd,    \* the edge normals of the level, as load_level derives them
    payload_buffer      \* width and height of the PayloadBuffer; buf holds its cells

rlVars == <<seg, rlt, rl_steps, rl_call>>
chunkVars == <<arr_chunk_data, num_chunks, i_acd_last_loop, chunk_err, hist, chunk_q,
              chunk_calls>>
poolVars == <<num_rl, arr_ptr_rl_sorted, sr_printed, sr_calls>>
scanVars == <<arr_region_insideness, arr_region_payload, rz, buf, flushed>>
srVars == <<poolVars, scanVars, drv>>
fillVars == <<arr_region_fill0, arr_region_fill1>>
trVars == <<tr, tr_op, tr_calls, tr_submitted>>
askVars == <<w2s>>
ballVars == <<ball, ball_call, arr_chunk_normal_wd, payload_buffer>>
vars == <<rlVars, chunkVars, srVars, fillVars, trVars, askVars, ballVars>>

\* What an action of one component leaves alone.
notRl == <<chunkVars, srVars, fillVars, trVars, askVars, ballVars>>
notChunk == <<rlVars, srVars, fillVars, trVars, askVars, ballVars>>
notSr == <<rlVars, chunkVars, fillVars, trVars, askVars, ballVars>>
notTr == <<rlVars, chunkVars, askVars, ballVars>>

Max2(a, b) == IF a > b THEN a ELSE b
Min2(a, b) == IF a < b THEN a ELSE b
Abs(a) == IF a < 0 THEN 0 - a ELSE a

(***************************************************************************)
(* Rasterized lines.  The code packs two 16-bit halves into each 32-bit    *)
(* field (s above p, a_s above a_p, region0 above region1, ...); every     *)
(* half is non-negative and below 2^15 for the biased coordinates the      *)
(* rasterizer hands in, so the halves are kept as separate record fields.  *)
(* The flag word is kept as its five bits plus the layer mask held above   *)
(* them.                                                                   *)
(***************************************************************************)
RL_SP_BIAS == 16384
RL_P_E_DONT_CORRECT == 32767
RL_NUM_REGIONS == 8
RL_REGION_UNUSED == RL_NUM_REGIONS

\* The packed (s, p) word: the key the RL index is sorted by.
SP(r) == r.s * 65536 + r.p

\* flags &= RL_FLAG_ALL_BITS ^ RL_FLAG_BIT_SCANLINE_HAS_ENDPOINT: the nine
\* bits of RL_FLAG_ALL_BITS keep bits 0..3 of the layer mask shifted by five.
ClearEndpointBit(r) == [r EXCEPT !.f_endpoint = FALSE, !.layer = r.layer % 16]

rl_init(s_b, p_b, s_e, p_e, region0, region1, payload0, payload1, mask_layer, is_past_exit) ==
    LET d_s == s_e - s_b
        d_p0 == p_e - p_b
        delta_p_is_positive == ~(d_p0 < 0)
        d_p == IF d_p0 < 0 THEN 0 - d_p0 ELSE d_p0
        is_steep == d_p > d_s
        fiddle == (delta_p_is_positive /\ is_past_exit)
                  \/ (~delta_p_is_positive /\ ~is_past_exit)
        \* steep case with correction
        p_st == IF delta_p_is_positive THEN p_b ELSE p_b + 1
        a_s_st == 2 * d_p
        a_p_st == 2 * d_s
        num_steps_p == (d_p \div a_p_st) + 1
        out ==
          IF d_s = 0 THEN
            [p |-> IF is_past_exit THEN Max2(p_e, p_b) + 1 ELSE Min2(p_e, p_b),
             a |-> 0, a_s |-> 0, a_p |-> 0, amp |-> TRUE, corr |-> FALSE,
             p_e |-> p_e]
          ELSE IF is_steep THEN
            IF fiddle THEN
              [p |-> IF delta_p_is_positive THEN p_st + num_steps_p
                     ELSE p_st - num_steps_p,
               a |-> d_p + a_s_st - num_steps_p * a_p_st,
               a_s |-> a_s_st, a_p |-> a_p_st, amp |-> FALSE, corr |-> TRUE,
               p_e |-> IF delta_p_is_positive THEN p_e + 1 ELSE p_e]
            ELSE
              [p |-> p_st, a |-> d_p, a_s |-> a_s_st, a_p |-> a_p_st,
               amp |-> FALSE, corr |-> FALSE, p_e |-> RL_P_E_DONT_CORRECT]
          ELSE
            [p |-> IF is_past_exit THEN p_b + 1 ELSE p_b,
             a |-> d_s, a_s |-> 2 * d_p, a_p |-> 2 * d_s, amp |-> TRUE,
             corr |-> FALSE, p_e |-> RL_P_E_DONT_CORRECT]
    IN [s |-> s_b, p |-> out.p,              \* I_RL_SP
        s_b |-> s_b, p_b |-> out.p,          \* I_RL_SP_B (the same word)
        s_e |-> s_e, p_e |-> out.p_e,        \* I_RL_SP_E
        a |-> out.a,                         \* I_RL_A
        f_endpoint |-> TRUE,                 \* I_RL_FLAGS ...
        f_dp_pos |-> delta_p_is_positive,
        f_past_exit |-> is_past_exit,
        f_am_is_ap |-> out.amp,
        f_correct |-> out.corr,
        layer |-> mask_layer,
        a_s |-> out.a_s, a_p |-> out.a_p,    \* I_RL_A_S_A_P
        r0 |-> region0, r1 |-> region1,      \* I_RL_REGION_0_1
        pay0 |-> payload0, pay1 |-> payload1]

\* The tail shared by rl_seek_s_to and rl_increment_s: step p as the error
\* accumulator asks, then set or clear the endpoint bit and patch p at s_e.
RlStepP(r, a_m) ==
    IF r.a >= a_m THEN
        LET num_steps_p == ((r.a - a_m) \div r.a_p) + 1
        IN [r EXCEPT !.a = r.a - num_steps_p * r.a_p,
                     !.p = IF r.f_dp_pos THEN r.p + num_steps_p
                           ELSE r.p - num_steps_p]
    ELSE r

\* RlAtEnd without the endpoint correction of a steep line: the flag is set
\* and the position is left where the stepping put it.
RlAtEnd_Uncorrected(r) ==
    IF r.s = r.s_e THEN [r EXCEPT !.f_endpoint = TRUE]
    ELSE ClearEndpointBit(r)

RlAtEnd(r) ==
    IF r.s = r.s_e THEN
        IF r.f_correct THEN [r EXCEPT !.f_endpoint = TRUE, !.p = r.p_e]
        ELSE [r EXCEPT !.f_endpoint = TRUE]
    ELSE ClearEndpointBit(r)

\* rl_increment_s that keeps counting scanlines at the end scanline.
rl_increment_s_PastEnd(r) ==
    LET a_m == IF r.f_am_is_ap THEN r.a_p ELSE r.a_s
        r1 == [r EXCEPT !.a = r.a + r.a_s, !.s = r.s + 1]
    IN IF r.s = r.s_e THEN ClearEndpointBit([r EXCEPT !.s = r.s + 1])
       ELSE RlAtEnd(RlStepP(r1, a_m))

rl_increment_s(r) ==
    IF r.s = r.s_e THEN r      \* (sp ^ sp_e) < 0x10000
    ELSE LET a_m == IF r.f_am_is_ap THEN r.a_p ELSE r.a_s
             r1 == [r EXCEPT !.a = r.a + r.a_s, !.s = r.s + 1]
         IN RlAtEnd(RlStepP(r1, a_m))

\* rl_seek_s_to past its first test: s_after0 is not above s_e.
RlSeekWithin(r, s_after0) ==
    LET s_after == IF s_after0 < r.s_b THEN r.s_b ELSE s_after0
        a_m == IF r.f_am_is_ap THEN r.a_p ELSE r.a_s
        \* reset to the state after rl_init when seeking backwards
        a0 == a_m \div 2
        r1 == IF s_after < r.s THEN
                [r EXCEPT !.s = r.s_b, !.p = r.p_b, !.f_endpoint = TRUE,
                          !.a = IF r.f_correct
                                THEN a0 + r.a_s - ((a0 \div r.a_p) + 1) * r.a_p
                                ELSE a0]
              ELSE r
        num_steps_s == s_after - r1.s
        r2 == [r1 EXCEPT !.a = r1.a + num_steps_s * r1.a_s, !.s = s_after]
    IN IF s_after > r1.s THEN RlAtEnd(RlStepP(r2, a_m)) ELSE r1

\* rl_seek_s_to that takes a target above s_e to s_e.
rl_seek_s_to_Clamped(r, s_after0) == RlSeekWithin(r, Min2(s_after0, r.s_e))

rl_seek_s_to(r, s_after0) ==
    IF s_after0 > r.s_e THEN r ELSE RlSeekWithin(r, s_after0)


(***************************************************************************)
(* ChunkData (bake_chunk_data.py builds it, scene.py reads it).  Chunk i   *)
(* is the four int16 fields arr_chunk_data[4*i .. 4*i + 3].                *)
(***************************************************************************)
MAX_NUM_CHUNKS == 192
I_CHUNK_IF_LOOP_MASK_TRIGGER_LAYER == 0
I_CHUNK_LOOP_REGION_FILL == 1
I_CHUNK_LOOP_NUM_EDGES == 2
I_CHUNK_LOOP_LAST_LOOP == 3
I_CHUNK_EDGE_X_B == 1
I_CHUNK_EDGE_Y_B == 2
I_CHUNK_EDGE_REGION_LINE == 3
I_CHUNK_NUM_FIELDS == 4

\* No chunk_edge_get_endpoints call has been made since the last build call.
NoQuery == [i |-> 0 - 1, res |-> [err |-> "no call", ends |-> <<>>]]
\* The capacity test taken one chunk late.
TooManyChunks_Late(n) == n > MAX_NUM_CHUNKS

\* The capacity test that opens _get_i_acd_next_chunk.
TooManyChunks(n) == n >= MAX_NUM_CHUNKS
\* _get_i_acd_next_chunk linking the new terminator to the chunk before it
\* in place of the last-loop cursor.
GetIAcdNextChunk_LinkPrev(arr, n, last) ==
    LET i_acd_loop == n * 4
    IN [arr |-> [arr EXCEPT ![i_acd_loop] = 1,
                            ![i_acd_loop + 1] = 8,
                            ![i_acd_loop + 2] = 0,
                            ![i_acd_loop + 3] = IF n = 0 THEN 0 ELSE n - 1],
        n |-> n + 1,
        ret |-> i_acd_loop - 4]

\* _get_i_acd_next_chunk past its capacity test: append a terminating empty
\* loop that points where the cursor points, return the former terminator.
GetIAcdNextChunk(arr, n, last) ==
    LET i_acd_loop == n * 4
    IN [arr |-> [arr EXCEPT
                   ![i_acd_loop + I_CHUNK_IF_LOOP_MASK_TRIGGER_LAYER] = 1,
                   ![i_acd_loop + I_CHUNK_LOOP_REGION_FILL] = RL_REGION_UNUSED,
                   ![i_acd_loop + I_CHUNK_LOOP_NUM_EDGES] = 0,
                   ![i_acd_loop + I_CHUNK_LOOP_LAST_LOOP] = last \div 4],
        n |-> n + 1,
        ret |-> i_acd_loop - I_CHUNK_NUM_FIELDS]

\* ChunkData.__init__: zeroed fields, no chunks, then clear_geometry.
NewChunkData ==
    LET zero == [i \in 0 .. I_CHUNK_NUM_FIELDS * MAX_NUM_CHUNKS - 1 |-> 0]
        g == GetIAcdNextChunk(zero, 0, 0)
    IN [arr |-> g.arr, n |-> g.n, last |-> 0]

ChunkConstructed ==
    LET g == NewChunkData
    IN /\ arr_chunk_data = g.arr
       /\ num_chunks = g.n
       /\ i_acd_last_loop = 0
       /\ chunk_err = "none"
       /\ hist = <<>>
       /\ chunk_q = NoQuery
       /\ chunk_calls = 0

\* A call that raises leaves the object as it was and reports the error.
ChunkRaise(msg) ==
    /\ chunk_err' = msg
    /\ chunk_q' = NoQuery
    /\ chunk_calls' = chunk_calls + 1
    /\ UNCHANGED <<arr_chunk_data, num_chunks, i_acd_last_loop, hist>>

clear_geometry ==
    LET g == GetIAcdNextChunk(arr_chunk_data, 0, i_acd_last_loop)
    IN /\ arr_chunk_data' = g.arr
       /\ num_chunks' = g.n
       /\ hist' = <<>>
       /\ chunk_err' = "none"
       /\ chunk_q' = NoQuery
       /\ chunk_calls' = chunk_calls + 1
       /\ UNCHANGED i_acd_last_loop

\* What a call of add_loop that does not raise makes of the object
\* [arr, n, last] = arr_chunk_data, num_chunks, i_acd_last_loop.
AddLoopTo(cd, region_fill, mask_layer, mask_trigger) ==
    LET g == GetIAcdNextChunk(cd.arr, cd.n, cd.last)
        i_acd_loop == g.ret
    IN [arr |-> [g.arr EXCEPT
                   ![i_acd_loop + I_CHUNK_IF_LOOP_MASK_TRIGGER_LAYER] =
                       mask_trigger * 256 + mask_layer,
                   ![i_acd_loop + I_CHUNK_LOOP_REGION_FILL] = region_fill],
        n |-> g.n,
        last |-> i_acd_loop]

ChunkNow == [arr |-> arr_chunk_data, n |-> num_chunks, last |-> i_acd_last_loop]

add_loop(region_fill, mask_layer, mask_trigger) ==
    IF mask_layer <= 0 \/ mask_trigger < 0 \/ mask_layer > 15 \/ mask_trigger > 15
    THEN ChunkRaise("bad layer/trigger masks")
    ELSE IF TooManyChunks(num_chunks) THEN ChunkRaise("too many chunks")
    ELSE
      LET cd == AddLoopTo(ChunkNow, region_fill, mask_layer, mask_trigger)
      IN /\ arr_chunk_data' = cd.arr
         /\ num_chunks' = cd.n
         /\ i_acd_last_loop' = cd.last
         /\ hist' = Append(hist, [op |-> "loop", region |-> region_fill,
                                    mask |-> mask_trigger * 256 + mask_layer])
         /\ chunk_err' = "none"
         /\ chunk_q' = NoQuery
         /\ chunk_calls' = chunk_calls + 1
\* loop_add_edge leaving the loop's edge count alone.
CountEdge_Skipped(arr, last) == arr

\* arr_chunk_data[i_acd_last_loop + I_CHUNK_LOOP_NUM_EDGES] += 1
CountEdge(arr, last) == [arr EXCEPT ![last + I_CHUNK_LOOP_NUM_EDGES] = @ + 1]

\* What a call of loop_add_edge that does not raise makes of the object.
LoopAddEdgeTo(cd, x, y, region_line) ==
    LET g == GetIAcdNextChunk(cd.arr, cd.n, cd.last)
        i_acd_edge == g.ret
        counted == CountEdge(g.arr, cd.last)
    IN [arr |-> [counted EXCEPT
                   ![i_acd_edge + I_CHUNK_IF_LOOP_MASK_TRIGGER_LAYER] = 0,
                   ![i_acd_edge + I_CHUNK_EDGE_X_B] = x,
                   ![i_acd_edge + I_CHUNK_EDGE_Y_B] = y,
                   ![i_acd_edge + I_CHUNK_EDGE_REGION_LINE] = region_line],
        n |-> g.n,
        last |-> cd.last]

loop_add_edge(x, y, region_line) ==
    IF TooManyChunks(num_chunks) THEN ChunkRaise("too many chunks")
    ELSE
      LET cd == LoopAddEdgeTo(ChunkNow, x, y, region_line)
      IN /\ arr_chunk_data' = cd.arr
         /\ num_chunks' = cd.n
         /\ hist' = Append(hist, [op |-> "edge", x |-> x, y |-> y,
                                    region |-> region_line])
         /\ chunk_err' = "none"
         /\ chunk_q' = NoQuery
         /\ chunk_calls' = chunk_calls + 1
         /\ UNCHANGED i_acd_last_loop

chunk_is_loop(arr, n, i_chunk) ==
    IF i_chunk >= n THEN "chunk index out of range"
    ELSE arr[i_chunk * 4 + I_CHUNK_IF_LOOP_MASK_TRIGGER_LAYER] # 0
\* chunk_edge_get_endpoints reading the next chunk without following a loop
\* header's back-link.
chunk_edge_get_endpoints_NoWrap(arr, n, i_chunk) ==
    IF i_chunk >= n THEN [err |-> "chunk index out of range", ends |-> <<>>]
    ELSE IF arr[i_chunk * 4] # 0 THEN [err |-> "chunk is not an edge", ends |-> <<>>]
    ELSE [err |-> "none",
          ends |-> <<arr[i_chunk * 4 + 1], arr[i_chunk * 4 + 2],
                     arr[i_chunk * 4 + 5], arr[i_chunk * 4 + 6]>>]

\* (v << 16) >> 16 leaves an int16 read from the array as it is.
chunk_edge_get_endpoints(arr, n, i_chunk) ==
    IF i_chunk >= n THEN [err |-> "chunk index out of range", ends |-> <<>>]
    ELSE
      LET i_acd_chunk == i_chunk * 4
      IN IF arr[i_acd_chunk + I_CHUNK_IF_LOOP_MASK_TRIGGER_LAYER] # 0
         THEN [err |-> "chunk is not an edge", ends |-> <<>>]
         ELSE
           LET i_acd_next == i_acd_chunk + I_CHUNK_NUM_FIELDS
               i_acd_end ==
                   IF arr[i_acd_next + I_CHUNK_IF_LOOP_MASK_TRIGGER_LAYER] # 0
                   THEN (arr[i_acd_next + I_CHUNK_LOOP_LAST_LOOP] + 1) * 4
                   ELSE i_acd_next
           IN [err |-> "none",
               ends |-> <<arr[i_acd_chunk + I_CHUNK_EDGE_X_B],
                          arr[i_acd_chunk + I_CHUNK_EDGE_Y_B],
                          arr[i_acd_end + I_CHUNK_EDGE_X_B],
                          arr[i_acd_end + I_CHUNK_EDGE_Y_B]>>]

\* A caller asks for the endpoints of chunk i_chunk and keeps the answer.
ChunkEdgeGetEndpoints(i_chunk) ==
    /\ chunk_q' = [i |-> i_chunk,
                   res |-> chunk_edge_get_endpoints(arr_chunk_data, num_chunks, i_chunk)]
    /\ UNCHANGED <<arr_chunk_data, num_chunks, i_acd_last_loop, chunk_err, hist,
                   chunk_calls>>


(***************************************************************************)
(* ScanlineRasterizer.  arr_ptr_rl_sorted[i] is a pointer into the shards; *)
(* the pointers are distinct and are only ever followed or swapped, so the *)
(* model keeps at index i the RL the pointer at index i points to: a swap  *)
(* of two pointers is a swap of two entries, a write through a pointer a   *)
(* write of the entry.                                                     *)
(***************************************************************************)
SR_MAX_NUM_RL == 512
SR_BUFFER_TYPE_DISPLAY == 0
SR_BUFFER_TYPE_PAYLOAD == 1

\* A shard is array('l', range(256)): before its first rl_init the RL in
\* slot i of the pool holds the words 8j .. 8j + 7, j its place in its shard.
RlUnwritten(i) ==
    LET j == i % 32
    IN [s |-> 0, p |-> 8 * j,
        s_b |-> 0, p_b |-> 8 * j + 1,
        s_e |-> 0, p_e |-> 8 * j + 2,
        a |-> 8 * j + 3,
        f_endpoint |-> FALSE, f_dp_pos |-> FALSE, f_past_exit |-> TRUE,
        f_am_is_ap |-> j % 2 = 1, f_correct |-> (j \div 2) % 2 = 1,
        layer |-> j \div 4,
        a_s |-> 0, a_p |-> 8 * j + 5,
        r0 |-> 0, r1 |-> 8 * j + 6,
        pay0 |-> 0, pay1 |-> 8 * j + 7]

\* 8x8 fill tiles to hand to the constructor, one byte per column and plane:
\* region r is drawn in plane 0 if r is even and in plane 1 if r % 4 < 2.
SolidFill0 == [i \in 0 .. 8 * RL_NUM_REGIONS - 1 |-> IF (i \div 8) % 2 = 0 THEN 255 ELSE 0]
SolidFill1 == [i \in 0 .. 8 * RL_NUM_REGIONS - 1 |-> IF (i \div 8) % 4 < 2 THEN 255 ELSE 0]

\* rasterize_to_buffer is not running.
RzIdle ==
    [pc |-> "idle", buffer_type |-> 0, mask_layer |-> 0, x_first |-> 0, y_first |-> 0,
     x_dim |-> 0, y_dim |-> 0, s |-> 0, i_rl_s_begin |-> 0, i_rl_s_end |-> 0,
     i_rl_in_s |-> 0, p_span_begin |-> 0]

NoFlush ==
    [valid |-> FALSE, s |-> 0, p_begin |-> 0, p_end |-> 0, region |-> RL_REGION_UNUSED,
     ins |-> [i \in 0 .. RL_NUM_REGIONS |-> 0]]

\* ScanlineRasterizer.__init__
SrConstructed ==
    /\ num_rl = 0
    /\ arr_ptr_rl_sorted = [i \in 0 .. SR_MAX_NUM_RL - 1 |-> RlUnwritten(i)]
    /\ arr_region_insideness = [i \in 0 .. RL_NUM_REGIONS |-> 0]
    /\ arr_region_payload = [i \in 0 .. RL_NUM_REGIONS |-> 0]
    /\ sr_printed = 0
    /\ sr_calls = 0
    /\ rz = RzIdle
    /\ buf = [i \in 0 .. 0 - 1 |-> 0]
    /\ flushed = NoFlush

\* An edge as add_edge_line_fill takes it.
Edge(x_b, y_b, x_e, y_e, region_line, region_fill, mask_layer) ==
    [x_b |-> x_b, y_b |-> y_b, x_e |-> x_e, y_e |-> y_e, region_line |-> region_line,
     region_fill |-> region_fill, payload_line |-> 100 + region_line,
     payload_fill |-> 200 + region_fill, mask_layer |-> mask_layer]

\* The caller has made no call yet.
DrvIdle ==
    [scene |-> 0, pass |-> 0, k |-> 0, op |-> "none", e |-> Edge(0, 0, 0, 0, 8, 8, 0),
     first |-> [i \in 0 .. 0 - 1 |-> 0]]

\* The rasterizer was handed the solid tiles.
SolidFills == arr_region_fill0 = SolidFill0 /\ arr_region_fill1 = SolidFill1

\* A rasterizer nobody uses.
SrIdle == SrConstructed /\ SolidFills /\ drv = DrvIdle

\* TransformedRasterizer.__init__ but for the ScanlineRasterizer it makes;
\* chunk_data is a reference, here the number of the ChunkData object.
TrConstructed(chunk_data) ==
    [update_rasterizer_geometry |-> TRUE, chunk_data |-> chunk_data,
     scale_f10 |-> 1024, inv_scale_f10 |-> 1024,
     angle_wd |-> 0, cos_f10 |-> 1024, sin_f10 |-> 0,
     translate_screen_x |-> 0, translate_screen_y |-> 0,
     xw_last_draw_f10 |-> 0, yw_last_draw_f10 |-> 0,
     xs_last_draw |-> 0, ys_last_draw |-> 0,
     xw_next_draw_f10 |-> 0, yw_next_draw_f10 |-> 0,
     delta_x_accum |-> 0, delta_y_accum |-> 0]

\* BallState.__init__
BallConstructed ==
    [xw_f10 |-> 0, yw_f10 |-> 0, v_angle_wd |-> 0, v_w_per_ms_f20 |-> 0,
     maybe_i_chunk_contact0 |-> 0 - 1, maybe_i_chunk_contact1 |-> 0 - 1,
     mask_layer |-> 15, water_ms |-> 0, in_water |-> FALSE,
     xw_last_shot_f10 |-> 0, yw_last_shot_f10 |-> 0,
     xw_hole_f10 |-> 0, yw_hole_f10 |-> 0, on_sand |-> FALSE,
     in_hole |-> FALSE, ignore_hole_line |-> FALSE,
     is_stopped |-> FALSE, ms_below_stop_threshold |-> 0,
     xw_exp_avg_f10 |-> 0, yw_exp_avg_f10 |-> 0]

\* No call made yet on the BallState.
NoBallCall ==
    [op |-> "none", pc |-> "idle", delta_ms |-> 0, calls |-> 0, raised |-> FALSE,
     before |-> BallConstructed, near_ms |-> 0, tracked_ms |-> 0, crossed |-> FALSE]

\* PayloadBuffer.__init__ but for the cells.
PayloadBufferConstructed == [width |-> 1, height |-> 1]

\* A BallState nobody has called yet, and no level loaded.
BallIdle ==
    /\ ball = BallConstructed
    /\ ball_call = NoBallCall
    /\ arr_chunk_normal_wd = <<>>
    /\ payload_buffer = PayloadBufferConstructed

\* A TransformedRasterizer nobody has called yet.
TrUncalled ==
    /\ tr = TrConstructed(1) /\ tr_op = "none" /\ tr_calls = 0 /\ tr_submitted = FALSE
    /\ w2s = [asked |-> FALSE, by |-> TrConstructed(1), x |-> 0, y |-> 0,
              screen_f10 |-> <<0, 0>>, submitted |-> <<0, 0>>]

\* Neither the TransformedRasterizer nor the BallState has been called.
TrIdle == BallIdle /\ TrUncalled

\* _allocate_rl appending to a full pool as to any other.
AllocateRlIndex_Append(n) == n

\* _allocate_rl on a pool pl = [arr, num_rl, printed]: the index of the RL
\* handed out, stomping over the last one when the pool is full.
AllocateRlIndex(n) == IF n = SR_MAX_NUM_RL THEN n - 1 ELSE n

\* _allocate_rl followed by the rl_init the caller makes through the pointer.
AllocateAndInit(pl, new_rl) ==
    LET i == AllocateRlIndex(pl.num_rl)
    IN [pl EXCEPT !.arr = [pl.arr EXCEPT ![i] = new_rl],
                  !.num_rl = i + 1,
                  !.printed = IF pl.num_rl = SR_MAX_NUM_RL THEN @ + 1 ELSE @]

\* add_edge_line_fill that gives the past-exit RL of an edge lying within
\* one scanline no fill region.
AddEdgeLineFill_NoExitInScanline(pl, x_b, y_b, x_e, y_e, region_line, region_fill, payload_line, payload_fill, mask_layer) ==
    LET s_b0 == x_b + RL_SP_BIAS
        p_b0 == y_b + RL_SP_BIAS
        s_e0 == x_e + RL_SP_BIAS
        p_e0 == y_e + RL_SP_BIAS
        has_line == region_line # RL_REGION_UNUSED
        is_single_scanline == s_e0 = s_b0
        winding_is_past_exit == s_e0 > s_b0
        s_b == IF winding_is_past_exit THEN s_b0 ELSE s_e0
        s_e == IF winding_is_past_exit THEN s_e0 ELSE s_b0
        p_b == IF winding_is_past_exit THEN p_b0 ELSE p_e0
        p_e == IF winding_is_past_exit THEN p_e0 ELSE p_b0
        fill_enter == is_single_scanline \/ ~winding_is_past_exit
        need_enter == has_line \/ fill_enter
        region_fill_enter == IF fill_enter THEN region_fill ELSE RL_REGION_UNUSED
        fill_past_exit == winding_is_past_exit
        need_past_exit == has_line \/ fill_past_exit
        region_fill_past_exit == IF fill_past_exit THEN region_fill ELSE RL_REGION_UNUSED
        pl1 == IF need_enter
               THEN AllocateAndInit(pl, rl_init(s_b, p_b, s_e, p_e, region_line,
                        region_fill_enter, payload_line, payload_fill, mask_layer, FALSE))
               ELSE pl
    IN IF need_past_exit
       THEN AllocateAndInit(pl1, rl_init(s_b, p_b, s_e, p_e, region_line,
                region_fill_past_exit, payload_line, payload_fill, mask_layer, TRUE))
       ELSE pl1

\* add_edge_line_fill on a pool pl.
AddEdgeLineFill(pl, x_b, y_b, x_e, y_e, region_line, region_fill, payload_line, payload_fill, mask_layer) ==
    LET s_b0 == x_b + RL_SP_BIAS
        p_b0 == y_b + RL_SP_BIAS
        s_e0 == x_e + RL_SP_BIAS
        p_e0 == y_e + RL_SP_BIAS
        has_line == region_line # RL_REGION_UNUSED
        is_single_scanline == s_e0 = s_b0
        winding_is_past_exit == s_e0 > s_b0
        s_b == IF winding_is_past_exit THEN s_b0 ELSE s_e0
        s_e == IF winding_is_past_exit THEN s_e0 ELSE s_b0
        p_b == IF winding_is_past_exit THEN p_b0 ELSE p_e0
        p_e == IF winding_is_past_exit THEN p_e0 ELSE p_b0
        fill_enter == is_single_scanline \/ ~winding_is_past_exit
        need_enter == has_line \/ fill_enter
        region_fill_enter == IF fill_enter THEN region_fill ELSE RL_REGION_UNUSED
        fill_past_exit == is_single_scanline \/ winding_is_past_exit
        need_past_exit == has_line \/ fill_past_exit
        region_fill_past_exit == IF fill_past_exit THEN region_fill ELSE RL_REGION_UNUSED
        pl1 == IF need_enter
               THEN AllocateAndInit(pl, rl_init(s_b, p_b, s_e, p_e, region_line,
                        region_fill_enter, payload_line, payload_fill, mask_layer, FALSE))
               ELSE pl
    IN IF need_past_exit
       THEN AllocateAndInit(pl1, rl_init(s_b, p_b, s_e, p_e, region_line,
                region_fill_past_exit, payload_line, payload_fill, mask_layer, TRUE))
       ELSE pl1

PoolNow == [arr |-> arr_ptr_rl_sorted, num_rl |-> num_rl, printed |-> 0]

\* A call of add_edge_line_fill with the arguments of e.
add_edge_line_fill(e) ==
    LET pl == AddEdgeLineFill(PoolNow, e.x_b, e.y_b, e.x_e, e.y_e, e.region_line,
                              e.region_fill, e.payload_line, e.payload_fill, e.mask_layer)
    IN /\ arr_ptr_rl_sorted' = pl.arr
       /\ num_rl' = pl.num_rl
       /\ sr_printed' = pl.printed
       /\ sr_calls' = sr_calls + 1

clear_edges ==
    /\ num_rl' = 0
    /\ sr_printed' = 0
    /\ sr_calls' = sr_calls + 1
    /\ UNCHANGED arr_ptr_rl_sorted

\* _sort_range_ptr_rl_insertion: the inner loop that carries the entry at
\* i_dest down while its key is below its predecessor's.
RECURSIVE SortCarryDown(_, _, _, _)
SortCarryDown(arr, i_dest, i_begin, sp_to_insert) ==
    IF i_dest > i_begin /\ sp_to_insert < SP(arr[i_dest - 1])
    THEN SortCarryDown([arr EXCEPT ![i_dest - 1] = arr[i_dest], ![i_dest] = arr[i_dest - 1]],
                       i_dest - 1, i_begin, sp_to_insert)
    ELSE arr

\* The outer loop from i_to_insert on.
RECURSIVE SortInsertFrom(_, _, _, _, _)
SortInsertFrom(arr, i_to_insert, i_begin, i_end, sp_sorted_max) ==
    IF i_to_insert >= i_end THEN arr
    ELSE LET sp_to_insert == SP(arr[i_to_insert])
         IN IF sp_to_insert < sp_sorted_max
            THEN SortInsertFrom(
                     SortCarryDown([arr EXCEPT ![i_to_insert - 1] = arr[i_to_insert],
                                               ![i_to_insert] = arr[i_to_insert - 1]],
                                   i_to_insert - 1, i_begin, sp_to_insert),
                     i_to_insert + 1, i_begin, i_end, sp_sorted_max)
            ELSE SortInsertFrom(arr, i_to_insert + 1, i_begin, i_end, sp_to_insert)

\* _sort_range_ptr_rl_insertion that leaves the range as it finds it.
sort_range_ptr_rl_insertion_Unsorted(arr, i_begin, i_end) == arr

sort_range_ptr_rl_insertion(arr, i_begin, i_end) ==
    IF i_begin >= i_end THEN arr
    ELSE SortInsertFrom(arr, i_begin + 1, i_begin, i_end, SP(arr[i_begin]))

\* a & b on non-negative integers.
RECURSIVE BitAnd(_, _)
BitAnd(a, b) ==
    IF a = 0 \/ b = 0 THEN 0
    ELSE (a % 2) * (b % 2) + 2 * BitAnd(a \div 2, b \div 2)

Bit(v, k) == (v \div (2 ^ k)) % 2

\* The display is two bit planes of one byte per column and eight rows; the
\* model keeps a pixel's two bits in cell x + width * y as bit0 + 2 * bit1.
\* fill_or_column_mask_unchecked ORs the fill bits into the first and last
\* byte of the range and assigns them in the bytes between.
fill_or_column_mask_unchecked(b, x, y0, y1, width, fill_mask0, fill_mask1) ==
    LET yb0 == y0 \div 8
        yb1 == y1 \div 8
        fill(y) == Bit(fill_mask0, y % 8) + 2 * Bit(fill_mask1, y % 8)
        ored(old, new) == Max2(old % 2, new % 2) + 2 * Max2(old \div 2, new \div 2)
    IN [i \in DOMAIN b |->
          LET y == i \div width
          IN IF i % width = x /\ y >= y0 /\ y <= y1
             THEN IF y \div 8 = yb0 \/ y \div 8 = yb1 THEN ored(b[i], fill(y))
                  ELSE fill(y)
             ELSE b[i]]

\* The payload loop: buf_payload[i_pay] = payload for i_pay, i_pay + x_dim, ...
\* below i_pay_end.
PayloadSpan(b, i_pay, i_pay_end, x_dim, payload) ==
    [i \in DOMAIN b |->
        IF i >= i_pay /\ i < i_pay_end /\ (i - i_pay) % x_dim = 0 THEN payload
        ELSE b[i]]

\* The effect of an RL on the insideness of its two regions: 2, or 1 on a
\* scanline that holds an endpoint of its edge, negated for a past-exit RL.
DeltaInside_Unsigned(rl) == IF rl.f_endpoint THEN 1 ELSE 2

\* The contribution of an RL that ignores the endpoint bit.
DeltaInside_AlwaysTwo(rl) == IF rl.f_past_exit THEN 0 - 2 ELSE 2

DeltaInside(rl) ==
    LET delta_inside == IF rl.f_endpoint THEN 1 ELSE 2
    IN IF rl.f_past_exit THEN 0 - delta_inside ELSE delta_inside

\* The flush taking the highest-numbered region that is inside.
RECURSIVE FirstRegionInside_Highest(_, _)
FirstRegionInside_Highest(ins, i_reg) ==
    IF i_reg >= RL_NUM_REGIONS THEN RL_REGION_UNUSED
    ELSE LET above == FirstRegionInside_Highest(ins, i_reg + 1)
         IN IF above # RL_REGION_UNUSED THEN above
            ELSE IF ins[i_reg] > 0 THEN i_reg ELSE RL_REGION_UNUSED

\* The flush taking a region whose counter is not zero.
RECURSIVE FirstRegionInside_Nonzero(_, _)
FirstRegionInside_Nonzero(ins, i_reg) ==
    IF i_reg >= RL_NUM_REGIONS THEN RL_REGION_UNUSED
    ELSE IF ins[i_reg] # 0 THEN i_reg
    ELSE FirstRegionInside_Nonzero(ins, i_reg + 1)

\* for i_reg in range(RL_NUM_REGIONS): if insideness > 0: draw; break
RECURSIVE FirstRegionInside(_, _)
FirstRegionInside(ins, i_reg) ==
    IF i_reg >= RL_NUM_REGIONS THEN RL_REGION_UNUSED
    ELSE IF ins[i_reg] > 0 THEN i_reg
    ELSE FirstRegionInside(ins, i_reg + 1)

\* The scan for the first RL at or past the first scanline of the buffer.
RECURSIVE FindFirstOccupied(_, _, _, _, _)
FindFirstOccupied(arr, n, i, s, s_first) ==
    IF i < n
    THEN IF arr[i].s >= s_first THEN [i |-> i, s |-> arr[i].s]
         ELSE FindFirstOccupied(arr, n, i + 1, arr[i].s, s_first)
    ELSE [i |-> i, s |-> s]

\* while i_rl_s_end < num_rl and the RL there is at s: i_rl_s_end += 1
RECURSIVE ExpandEnd(_, _, _, _)
ExpandEnd(arr, n, i_end, s) ==
    IF i_end < n /\ arr[i_end].s = s THEN ExpandEnd(arr, n, i_end + 1, s) ELSE i_end

\* while i_rl_s_begin < i_rl_s_end and the RL there is not at s: i_rl_s_begin += 1
RECURSIVE AdvanceBegin(_, _, _, _)
AdvanceBegin(arr, i_begin, i_end, s) ==
    IF i_begin < i_end /\ arr[i_begin].s # s THEN AdvanceBegin(arr, i_begin + 1, i_end, s)
    ELSE i_begin

RzSFirst == rz.x_first + RL_SP_BIAS
RzSLast == RzSFirst + rz.x_dim - 1
RzPFirst == rz.y_first + RL_SP_BIAS
RzPPastLast == RzPFirst + rz.y_dim

\* rasterize_to_buffer up to its main loop: seek every RL to the first
\* scanline, sort the whole index, find the first occupied scanline.
\* pl is the pool the call finds.
RasterizeBeginOn(pl, buffer_type, mask_layer, x_first, y_first, x_dim, y_dim) ==
    LET s_first == x_first + RL_SP_BIAS
        sought == [i \in DOMAIN pl.arr |->
                     IF i < pl.num_rl THEN rl_seek_s_to(pl.arr[i], s_first)
                     ELSE pl.arr[i]]
        sorted == sort_range_ptr_rl_insertion(sought, 0, pl.num_rl)
        first == FindFirstOccupied(sorted, pl.num_rl, 0, s_first, s_first)
    IN /\ rz.pc = "idle"
       /\ arr_ptr_rl_sorted' = sorted
       /\ num_rl' = pl.num_rl
       /\ rz' = [pc |-> "scan", buffer_type |-> buffer_type, mask_layer |-> mask_layer,
                 x_first |-> x_first, y_first |-> y_first, x_dim |-> x_dim,
                 y_dim |-> y_dim, s |-> first.s, i_rl_s_begin |-> first.i,
                 i_rl_s_end |-> first.i, i_rl_in_s |-> 0, p_span_begin |-> 0]
       /\ flushed' = NoFlush
       /\ UNCHANGED <<arr_region_insideness, arr_region_payload>>

\* rasterize_to_buffer called on the rasterizer as it is.
RasterizeBegin(buffer_type, mask_layer, x_first, y_first, x_dim, y_dim) ==
    /\ RasterizeBeginOn([arr |-> arr_ptr_rl_sorted, num_rl |-> num_rl], buffer_type,
                        mask_layer, x_first, y_first, x_dim, y_dim)
    /\ UNCHANGED <<sr_printed, sr_calls>>

RzInLoop == rz.i_rl_s_begin < num_rl /\ rz.s <= RzSLast

\* The head of a main loop iteration: find the end of the range of RLs at s,
\* reset the insideness counters and the span start.
ScanlineBegin ==
    /\ rz.pc = "scan"
    /\ RzInLoop
    /\ rz' = [rz EXCEPT
                !.pc = "rl",
                !.i_rl_s_end = IF rz.i_rl_s_end = rz.i_rl_s_begin
                               THEN ExpandEnd(arr_ptr_rl_sorted, num_rl, rz.i_rl_s_end, rz.s)
                               ELSE rz.i_rl_s_end,
                !.p_span_begin = RzPFirst,
                !.i_rl_in_s = rz.i_rl_s_begin]
    /\ arr_region_insideness' = [i \in 0 .. RL_NUM_REGIONS |-> 0]
    /\ flushed' = NoFlush
    /\ UNCHANGED <<poolVars, arr_region_payload, buf>>

\* The main loop is left: rasterize_to_buffer returns.
RasterizeReturn ==
    /\ rz.pc = "scan"
    /\ ~RzInLoop
    /\ rz' = [rz EXCEPT !.pc = "idle"]
    /\ flushed' = NoFlush
    /\ UNCHANGED <<poolVars, arr_region_insideness, arr_region_payload, buf>>

\* A span end taken as the RL gives it.
ClampSpanEnd_Unclamped(p, p_past_last) == p

\* if p >= p_past_last: p = p_past_last
ClampSpanEnd(p, p_past_last) == IF p >= p_past_last THEN p_past_last ELSE p

\* One iteration of the loop over the RLs of the scanline: flush the span
\* this RL's p ends, apply the RL to the counters, step the RL to the next s.
ScanRl ==
    /\ rz.pc = "rl"
    /\ rz.i_rl_in_s < rz.i_rl_s_end
    /\ LET rl_in_s == arr_ptr_rl_sorted[rz.i_rl_in_s]
           ends_span == rl_in_s.p > rz.p_span_begin
           clamped_span == rl_in_s.p >= RzPPastLast
           p == ClampSpanEnd(rl_in_s.p, RzPPastLast)
           i_reg == FirstRegionInside(arr_region_insideness, 0)
           x == rz.s - RzSFirst
           buffer_is_payload == rz.buffer_type = SR_BUFFER_TYPE_PAYLOAD
           i_pay == x + (rz.p_span_begin - RzPFirst) * rz.x_dim
           drawn ==
               IF buffer_is_payload
               THEN PayloadSpan(buf, i_pay, i_pay + (p - rz.p_span_begin) * rz.x_dim,
                                rz.x_dim, arr_region_payload[i_reg])
               ELSE fill_or_column_mask_unchecked(buf, x, rz.p_span_begin - RzPFirst,
                        p - 1 - RzPFirst, rz.x_dim,
                        arr_region_fill0[8 * i_reg + (x % 8)],
                        arr_region_fill1[8 * i_reg + (x % 8)])
           in_layer == BitAnd(rl_in_s.layer, rz.mask_layer) # 0
           delta_inside == DeltaInside(rl_in_s)
           ins0 == [arr_region_insideness EXCEPT ![rl_in_s.r0] = @ + delta_inside]
           ins1 == [ins0 EXCEPT ![rl_in_s.r1] = @ + delta_inside]
           pay0 == [arr_region_payload EXCEPT ![rl_in_s.r0] = rl_in_s.pay0]
           pay1 == [pay0 EXCEPT ![rl_in_s.r1] = rl_in_s.pay1]
       IN /\ buf' = IF ends_span /\ i_reg # RL_REGION_UNUSED THEN drawn ELSE buf
          /\ flushed' = IF ends_span
                        THEN [valid |-> TRUE, s |-> rz.s, p_begin |-> rz.p_span_begin,
                              p_end |-> p, region |-> i_reg,
                              ins |-> arr_region_insideness]
                        ELSE NoFlush
          /\ arr_region_insideness' = IF in_layer THEN ins1 ELSE arr_region_insideness
          /\ arr_region_payload' =
                 IF in_layer /\ buffer_is_payload /\ ~rl_in_s.f_past_exit THEN pay1
                 ELSE arr_region_payload
          /\ arr_ptr_rl_sorted' =
                 [arr_ptr_rl_sorted EXCEPT ![rz.i_rl_in_s] = rl_increment_s(rl_in_s)]
          /\ rz' = [rz EXCEPT
                      !.p_span_begin = IF ~ends_span THEN rz.p_span_begin
                                       ELSE IF clamped_span THEN 2147483647 ELSE p,
                      !.i_rl_in_s = rz.i_rl_in_s + 1]
    /\ UNCHANGED <<num_rl, sr_printed, sr_calls>>

\* The tail of a main loop iteration: s += 1, take in the RLs that start at
\* the new s, sort the range, drop the RLs that ended at the prior s.
ScanlineEnd ==
    /\ rz.pc = "rl"
    /\ rz.i_rl_in_s >= rz.i_rl_s_end
    /\ LET s == rz.s + 1
           i_end == ExpandEnd(arr_ptr_rl_sorted, num_rl, rz.i_rl_s_end, s)
           sorted == sort_range_ptr_rl_insertion(arr_ptr_rl_sorted, rz.i_rl_s_begin, i_end)
           i_begin == AdvanceBegin(sorted, rz.i_rl_s_begin, i_end, s)
       IN /\ arr_ptr_rl_sorted' = sorted
          /\ rz' = [rz EXCEPT
                      !.pc = "scan",
                      !.s = IF i_begin = i_end /\ i_begin < num_rl THEN sorted[i_begin].s
                            ELSE s,
                      !.i_rl_s_begin = i_begin,
                      !.i_rl_s_end = i_end]
    /\ flushed' = NoFlush
    /\ UNCHANGED <<num_rl, sr_printed, sr_calls, arr_region_insideness,
                   arr_region_payload, buf>>

(***************************************************************************)
(* SpecRL: rl_init on a segment with s_b <= s_e, then rl_increment_s.      *)
(***************************************************************************)
MaxDS == 4      \* segments span at most MaxDS scanlines beyond the first
MaxDP == 6      \* and positions RL_SP_BIAS .. RL_SP_BIAS + MaxDP

Segments ==
    [s_b : {RL_SP_BIAS}, s_e : RL_SP_BIAS .. RL_SP_BIAS + MaxDS,
     p_b : RL_SP_BIAS .. RL_SP_BIAS + MaxDP,
     p_e : RL_SP_BIAS .. RL_SP_BIAS + MaxDP,
     is_past_exit : BOOLEAN]

RlOfSeg(sg) ==
    rl_init(sg.s_b, sg.p_b, sg.s_e, sg.p_e, 0, RL_REGION_UNUSED, 0, 0, 1,
            sg.is_past_exit)

\* No call made yet on the RL under test.
NoRlCall == [op |-> "none", target |-> 0, s_before |-> 0]

\* The RL under test, left alone by the specifications of other components.
RlIdle ==
    /\ seg = [s_b |-> RL_SP_BIAS, s_e |-> RL_SP_BIAS, p_b |-> RL_SP_BIAS,
              p_e |-> RL_SP_BIAS, is_past_exit |-> FALSE]
    /\ rlt = RlOfSeg(seg)
    /\ rl_steps = 0
    /\ rl_call = NoRlCall

InitRL ==
    /\ seg \in Segments
    /\ rlt = RlOfSeg(seg)
    /\ rl_steps = 0
    /\ rl_call = NoRlCall
    /\ ChunkConstructed
    /\ SrIdle
    /\ TrIdle

RlIncrement ==
    /\ rl_steps <= seg.s_e - seg.s_b      \* one call past the end scanline
    /\ rlt' = rl_increment_s(rlt)
    /\ rl_steps' = rl_steps + 1
    /\ UNCHANGED <<seg, rl_call, notRl>>

NextRL == RlIncrement

SpecRL == InitRL /\ [][NextRL]_vars

(***************************************************************************)
(* SpecSeek: rl_init on a segment, then rl_seek_s_to and rl_increment_s in *)
(* any order, the seeks to targets from one scanline before the segment to *)
(* one past it.                                                            *)
(***************************************************************************)
SeekLayers == {15}      \* every bit of a layer mask set

SeekSegments ==
    [s_b : {RL_SP_BIAS}, s_e : RL_SP_BIAS .. RL_SP_BIAS + MaxDS,
     p_b : RL_SP_BIAS .. RL_SP_BIAS + MaxDP,
     p_e : RL_SP_BIAS .. RL_SP_BIAS + MaxDP,
     is_past_exit : BOOLEAN, layer : SeekLayers]

RlOfSeekSeg(sg) ==
    rl_init(sg.s_b, sg.p_b, sg.s_e, sg.p_e, 2, 5, 7, 2048 + 5, sg.layer,
            sg.is_past_exit)

InitSeek ==
    /\ seg \in SeekSegments
    /\ rlt = RlOfSeekSeg(seg)
    /\ rl_steps = 0
    /\ rl_call = NoRlCall
    /\ ChunkConstructed
    /\ SrIdle
    /\ TrIdle

SeekIncrement ==
    /\ rlt' = rl_increment_s(rlt)
    /\ rl_call' = [op |-> "rl_increment_s", target |-> 0, s_before |-> rlt.s]
    /\ UNCHANGED <<seg, rl_steps, notRl>>

SeekSeek ==
    /\ \E s_after \in seg.s_b - 1 .. seg.s_e + 1 :
          /\ rlt' = rl_seek_s_to(rlt, s_after)
          /\ rl_call' = [op |-> "rl_seek_s_to", target |-> s_after, s_before |-> rlt.s]
    /\ UNCHANGED <<seg, rl_steps, notRl>>

NextSeek == SeekIncrement \/ SeekSeek

SpecSeek == InitSeek /\ [][NextSeek]_vars

(***************************************************************************)
(* The reference: Bresenham's line algorithm walked from the begin point   *)
(* along the major axis, one pixel per step, with the integer decision     *)
(* variable D = 2*dmin - dmaj.  tieSteps says what a decision of exactly 0 *)
(* (the line passing midway between two pixels) does: step the minor axis  *)
(* (Bresenham's D >= 0) or stay.                                           *)
(***************************************************************************)
RECURSIVE BresMinorAt(_, _, _, _, _, _, _)
BresMinorAt(k, i, D, m, dmaj, dmin, tieSteps) ==
    IF i = k THEN m
    ELSE LET step == IF tieSteps THEN D >= 0 ELSE D > 0
         IN BresMinorAt(k, i + 1, (IF step THEN D - 2 * dmaj ELSE D) + 2 * dmin,
                        IF step THEN m + 1 ELSE m, dmaj, dmin, tieSteps)

\* The pixels <<s, p>> of the segment, with the tie rule of each slope case.
BresPixels(sg, tieShallow, tieSteep) ==
    LET d_s == sg.s_e - sg.s_b
        d_p == Abs(sg.p_e - sg.p_b)
        sgn == IF sg.p_e < sg.p_b THEN 0 - 1 ELSE 1
    IN IF d_p > d_s
       THEN {<<sg.s_b + BresMinorAt(k, 0, 2 * d_s - d_p, 0, d_p, d_s, tieSteep),
               sg.p_b + sgn * k>> : k \in 0 .. d_p}
       ELSE {<<sg.s_b + k,
               sg.p_b + sgn * BresMinorAt(k, 0, 2 * d_p - d_s, 0, d_s, d_p, tieShallow)>> :
               k \in 0 .. d_s}

SetMin(S) == CHOOSE x \in S : \A y \in S : x <= y
SetMax(S) == CHOOSE x \in S : \A y \in S : x >= y

\* Where the RL of the segment must stand in scanline s: the first reference
\* pixel for the enter variant, one past the last for the past-exit variant.
RefPos(sg, s, tieShallow, tieSteep) ==
    LET col == {px[2] : px \in {q \in BresPixels(sg, tieShallow, tieSteep) : q[1] = s}}
    IN IF sg.is_past_exit THEN SetMax(col) + 1 ELSE SetMin(col)

\* The RL stands where rl_steps increments from s_b put it, on the reference.
RlOnReference(tieShallow, tieSteep) ==
    /\ rlt.s = Min2(seg.s_b + rl_steps, seg.s_e)
    /\ rlt.p = RefPos(seg, rlt.s, tieShallow, tieSteep)

\* A decision of exactly 0 occurs somewhere on the segment's walk.
SegHasTie(sg) ==
    LET d_s == sg.s_e - sg.s_b
        d_p == Abs(sg.p_e - sg.p_b)
        dmaj == Max2(d_s, d_p)
        dmin == Min2(d_s, d_p)
    IN \E k \in 1 .. dmaj : 2 * k * dmin - dmaj - 2 * dmaj * ((2 * k * dmin - dmaj) \div (2 * dmaj)) = 0

\* C1 (as stated): the RL walked by rl_increment_s from scanline_begin to
\* scanline_end stands, in every scanline, on the first pixel (enter) or one
\* past the last pixel (past-exit) of the textbook Bresenham line of the
\* segment, whose decision D >= 0 steps the minor axis in every slope case.
C1_TextbookBresenham == RlOnReference(TRUE, TRUE)

\* C1 (amended): the same, against the Bresenham line whose exact ties step
\* the position in a shallow segment and keep the scanline in a steep one.
C1_BresenhamTiesToPosition == RlOnReference(TRUE, FALSE)

\* A steep past-exit RL with endpoint correction walked to its end scanline
\* over a segment with an exact tie.
C1_Witness ==
    /\ rlt.s = seg.s_e
    /\ rl_steps = seg.s_e - seg.s_b
    /\ seg.s_e >= seg.s_b + 2
    /\ Abs(seg.p_e - seg.p_b) > seg.s_e - seg.s_b
    /\ rlt.f_correct
    /\ SegHasTie(seg)

(***************************************************************************)
(* SpecChunk: a ChunkData object under any build calls and endpoint        *)
(* queries, MaxCalls build calls deep.                                     *)
(***************************************************************************)
MaxCalls == 5

ChunkVerts == {<<1, 1>>, <<2, 0 - 3>>}     \* the vertices handed to loop_add_edge
ChunkMasks == {0, 1}                       \* mask_layer handed to add_loop; 0 is refused

InitChunk == RlIdle /\ ChunkConstructed /\ SrIdle /\ TrIdle

ChunkAddLoop ==
    /\ chunk_calls < MaxCalls
    /\ \E m \in ChunkMasks : add_loop(7, m, 0)
    /\ UNCHANGED notChunk

ChunkLoopAddEdge ==
    /\ chunk_calls < MaxCalls
    /\ \E v \in ChunkVerts : loop_add_edge(v[1], v[2], 0)
    /\ UNCHANGED notChunk

ChunkClear ==
    /\ chunk_calls < MaxCalls
    /\ clear_geometry
    /\ UNCHANGED notChunk

ChunkQuery ==
    /\ \E i \in 0 .. num_chunks : ChunkEdgeGetEndpoints(i)
    /\ UNCHANGED notChunk

NextChunk == ChunkAddLoop \/ ChunkLoopAddEdge \/ ChunkClear \/ ChunkQuery

SpecChunk == InitChunk /\ [][NextChunk]_vars

(***************************************************************************)
(* SpecChunkCap: a ChunkData object filled to MAX_NUM_CHUNKS.  One loop is *)
(* opened, edges are added up to the capacity, and within CapTail chunks   *)
(* of the capacity either call is made.                                    *)
(***************************************************************************)
CapTail == 3

CapAddLoop ==
    /\ hist = <<>> \/ num_chunks >= MAX_NUM_CHUNKS - CapTail
    /\ chunk_calls < MAX_NUM_CHUNKS + 1
    /\ add_loop(7, 1, 0)
    /\ UNCHANGED notChunk

CapLoopAddEdge ==
    /\ hist # <<>>
    /\ chunk_calls < MAX_NUM_CHUNKS + 1
    /\ loop_add_edge(1, 1, 0)
    /\ UNCHANGED notChunk

NextChunkCap == CapAddLoop \/ CapLoopAddEdge

SpecChunkCap == InitChunk /\ [][NextChunkCap]_vars

\* What the calls made say about the chunks: call j wrote chunk j - 1.
ChunkField(i_chunk, f) == arr_chunk_data[i_chunk * 4 + f]
HistLoops == {j \in 1 .. Len(hist) : hist[j].op = "loop"}
BeginsWithLoop == hist # <<>> /\ hist[1].op = "loop"
\* The edges added to the loop of call j before the next add_loop.
EdgesAfter(j) ==
    Cardinality({k \in j + 1 .. Len(hist) : \A m \in j + 1 .. k : hist[m].op = "edge"})
\* The first call of the run of loop_add_edge calls that call j belongs to.
FirstEdgeOfRun(j) == SetMin({k \in 1 .. j : \A m \in k .. j : hist[m].op = "edge"})

FinalChunkIsEmptyLoop ==
    /\ num_chunks >= 1
    /\ ChunkField(num_chunks - 1, I_CHUNK_IF_LOOP_MASK_TRIGGER_LAYER) # 0
    /\ ChunkField(num_chunks - 1, I_CHUNK_LOOP_NUM_EDGES) = 0
FinalBackLink == ChunkField(num_chunks - 1, I_CHUNK_LOOP_LAST_LOOP)

C7_EdgeCountsMatch ==
    BeginsWithLoop =>
        /\ num_chunks = Len(hist) + 1
        /\ \A j \in 1 .. Len(hist) :
              /\ (ChunkField(j - 1, I_CHUNK_IF_LOOP_MASK_TRIGGER_LAYER) = 0)
                    <=> (hist[j].op = "edge")
              /\ hist[j].op = "loop"
                    => ChunkField(j - 1, I_CHUNK_LOOP_NUM_EDGES) = EdgesAfter(j)
        /\ FinalChunkIsEmptyLoop

\* A loop of two edges followed by a loop of one edge.
C7_Witness ==
    /\ Len(hist) = 5
    /\ hist[1].op = "loop" /\ hist[2].op = "edge" /\ hist[3].op = "edge"
    /\ hist[4].op = "loop" /\ hist[5].op = "edge"

\* C8: num_chunks never exceeds MAX_NUM_CHUNKS, and a build call made at the
\* capacity raises and leaves the chunk array, num_chunks and the last-loop
\* cursor as they were.
C8_CapacityIsFatal ==
    /\ [](num_chunks <= MAX_NUM_CHUNKS)
    /\ [][(num_chunks = MAX_NUM_CHUNKS /\ chunk_calls' # chunk_calls)
            => /\ chunk_err' # "none"
               /\ arr_chunk_data' = arr_chunk_data
               /\ num_chunks' = num_chunks
               /\ i_acd_last_loop' = i_acd_last_loop]_vars

\* A call was made on the full object and raised.
C8_Witness == num_chunks = MAX_NUM_CHUNKS /\ chunk_err = "too many chunks"

\* What chunk_edge_get_endpoints must return for the edge of call j: its own
\* vertex, then the vertex of the next edge, or of the first edge of its run
\* when the next call opened a loop or there was none.
ExpectedEndpoints(j) ==
    LET k == IF j < Len(hist) /\ hist[j + 1].op = "edge" THEN j + 1
             ELSE FirstEdgeOfRun(j)
    IN <<hist[j].x, hist[j].y, hist[k].x, hist[k].y>>

QueriedAnEdge ==
    /\ chunk_q.i >= 0
    /\ chunk_q.i < Len(hist)
    /\ hist[chunk_q.i + 1].op = "edge"

\* C9 (as stated): for geometry built by any add_loop and loop_add_edge
\* calls, chunk_edge_get_endpoints of an edge chunk returns the edge's own
\* vertex and the vertex of the next edge, wrapping to the first edge after
\* the last edge of a loop.
C9_EndpointsAnyCalls ==
    QueriedAnEdge
        => chunk_q.res = [err |-> "none", ends |-> ExpectedEndpoints(chunk_q.i + 1)]

\* C9 (amended): the same for geometry built by calls that begin with
\* add_loop, so that every edge belongs to a loop.
C9_EndpointsInLoops ==
    (QueriedAnEdge /\ BeginsWithLoop)
        => chunk_q.res = [err |-> "none", ends |-> ExpectedEndpoints(chunk_q.i + 1)]

\* The last edge of a first loop was queried, a second loop following it.
C9_Witness ==
    /\ QueriedAnEdge /\ BeginsWithLoop
    /\ chunk_q.i = 2
    /\ Len(hist) >= 4
    /\ hist[2].op = "edge" /\ hist[3].op = "edge" /\ hist[4].op = "loop"
    /\ hist[2].x # hist[3].x

(***************************************************************************)
(* SpecPool: a ScanlineRasterizer whose pool is filled to SR_MAX_NUM_RL.   *)
(* Below PoolTail free slots of the capacity the caller adds edges of two  *)
(* RLs each, every one different from the one before; from there on it     *)
(* adds any edge of PoolEdges or clears, PoolExtra calls past the fill.    *)
(***************************************************************************)
PoolTail == 3
PoolExtra == 4

\* An edge with a line region (two RLs), a fill-only edge to the left (an
\* enter RL) and one to the right (a past-exit RL), a fill-only edge within
\* one scanline (two RLs).
PoolEdges ==
    {Edge(0, 1, 4, 3, 1, 2, 1), Edge(5, 0, 2, 2, 8, 3, 1), Edge(1, 1, 3, 0, 8, 4, 2),
     Edge(2, 0, 2, 5, 8, 5, 1)}

\* The edge the caller adds while the pool is far from full.
PoolFiller == Edge(0, sr_calls % 7, 1 + (sr_calls % 5), 3, 1, 2, 1)

InitPool == RlIdle /\ ChunkConstructed /\ SrIdle /\ TrIdle

PoolNearFull == num_rl >= SR_MAX_NUM_RL - PoolTail
PoolMayCall == sr_calls < SR_MAX_NUM_RL \div 2 + PoolExtra

PoolFill ==
    /\ PoolMayCall
    /\ ~PoolNearFull
    /\ add_edge_line_fill(PoolFiller)
    /\ drv' = [drv EXCEPT !.op = "add", !.e = PoolFiller]
    /\ UNCHANGED <<scanVars, notSr>>

PoolAddEdge ==
    /\ PoolMayCall
    /\ PoolNearFull
    /\ \E e \in PoolEdges :
          /\ add_edge_line_fill(e)
          /\ drv' = [drv EXCEPT !.op = "add", !.e = e]
    /\ UNCHANGED <<scanVars, notSr>>

PoolClear ==
    /\ PoolMayCall
    /\ PoolNearFull
    /\ clear_edges
    /\ drv' = [drv EXCEPT !.op = "clear"]
    /\ UNCHANGED <<scanVars, notSr>>

NextPool == PoolFill \/ PoolAddEdge \/ PoolClear

SpecPool == InitPool /\ [][NextPool]_vars

\* C5: the RL count stays within 0 .. SR_MAX_NUM_RL under any clear_edges
\* and add_edge_line_fill calls, and an add_edge_line_fill call on a full
\* pool leaves the count at SR_MAX_NUM_RL, prints the diagnostic, leaves
\* slots 0 .. 510 as they were and leaves in slot 511 a freshly initialised
\* RL of the new edge.
C5_PoolOverflowStomps ==
    /\ [](num_rl >= 0 /\ num_rl <= SR_MAX_NUM_RL)
    /\ [][(num_rl = SR_MAX_NUM_RL /\ sr_calls' # sr_calls /\ drv'.op = "add")
            => /\ num_rl' = SR_MAX_NUM_RL
               /\ sr_printed' >= 1
               /\ \A i \in 0 .. SR_MAX_NUM_RL - 2 :
                     arr_ptr_rl_sorted'[i] = arr_ptr_rl_sorted[i]
               /\ LET last == arr_ptr_rl_sorted'[SR_MAX_NUM_RL - 1]
                  IN /\ last.s_b = Min2(drv'.e.x_b, drv'.e.x_e) + RL_SP_BIAS
                     /\ last.s_e = Max2(drv'.e.x_b, drv'.e.x_e) + RL_SP_BIAS
                     /\ last.s = last.s_b /\ last.p = last.p_b
                     /\ last.r0 = drv'.e.region_line
                     /\ last.pay1 = drv'.e.payload_fill
                     /\ last.layer = drv'.e.mask_layer]_vars

\* An edge was added to a full pool: the diagnostic was printed and the
\* last slot holds an RL of that edge, unlike the one the fill had left.
C5_Witness ==
    /\ num_rl = SR_MAX_NUM_RL
    /\ sr_printed >= 1
    /\ drv.op = "add"
    /\ arr_ptr_rl_sorted[SR_MAX_NUM_RL - 1].pay1 = drv.e.payload_fill
    /\ arr_ptr_rl_sorted[SR_MAX_NUM_RL - 2].pay1 # drv.e.payload_fill

(***************************************************************************)
(* SpecRaster: a caller submits the edges of one scene, loop by loop and   *)
(* edge by edge, and rasterizes it into a cleared buffer; it then clears   *)
(* the edges, submits the scene again with the two endpoints of every edge *)
(* exchanged, and rasterizes that with the same arguments.  Coordinates    *)
(* are screen coordinates: +x to the right (the scanline axis), +y down.   *)
(***************************************************************************)
Loop(verts, region_fill, region_line, mask_layer) ==
    [verts |-> verts, region_fill |-> region_fill, region_line |-> region_line,
     mask_layer |-> mask_layer]

SquareAsWritten == <<<<0, 0>>, <<10, 0>>, <<10, 10>>, <<0, 10>>>>
SquareCCW == <<<<0, 0>>, <<0, 10>>, <<10, 10>>, <<10, 0>>>>
TriangleCCW == <<<<0, 0>>, <<2, 6>>, <<6, 3>>>>
\* A rectangle with a notch in its right side: columns 4 and 5 leave the
\* loop at y = 3 and enter it again at y = 5.
NotchedCCW ==
    <<<<0, 0>>, <<0, 8>>, <<6, 8>>, <<6, 5>>, <<3, 5>>, <<3, 3>>, <<6, 3>>, <<6, 0>>>>
SmallSquareCCW(x, y) == <<<<x, y>>, <<x, y + 6>>, <<x + 6, y + 6>>, <<x + 6, y>>>>

Scenes ==
    << <<Loop(SquareAsWritten, 2, 8, 1)>>,
       <<Loop(SquareCCW, 2, 8, 1)>>,
       <<Loop(TriangleCCW, 5, 8, 1)>>,
       <<Loop(SquareCCW, 4, 0, 1)>>,
       <<Loop(SmallSquareCCW(0, 0), 3, 8, 1), Loop(SmallSquareCCW(3, 3), 1, 8, 1)>>,
       <<Loop(SmallSquareCCW(3, 3), 1, 8, 1), Loop(SmallSquareCCW(0, 0), 3, 8, 1)>>,
       <<Loop(NotchedCCW, 6, 8, 1)>>,
       \* three loops, the second one in a layer the draw leaves out
       <<Loop(SmallSquareCCW(0, 0), 2, 8, 1), Loop(SmallSquareCCW(3, 3), 1, 0, 2),
         Loop(TriangleCCW, 5, 8, 3)>> >>

Windows ==
    {[x_first |-> 0 - 1, y_first |-> 0 - 1, x_dim |-> 13, y_dim |-> 13],
     [x_first |-> 2, y_first |-> 3, x_dim |-> 6, y_dim |-> 5]}

\* The add_edge_line_fill calls a loop takes: vertex k to vertex k + 1, the
\* last one back to the first; reversed, each edge from its end to its begin.
LoopEdges(l, reversed) ==
    [k \in 1 .. Len(l.verts) |->
        LET b == l.verts[k]
            e == l.verts[(k % Len(l.verts)) + 1]
        IN IF reversed
           THEN Edge(e[1], e[2], b[1], b[2], l.region_line, l.region_fill, l.mask_layer)
           ELSE Edge(b[1], b[2], e[1], e[2], l.region_line, l.region_fill, l.mask_layer)]

RECURSIVE SceneEdgesFrom(_, _, _)
SceneEdgesFrom(sc, i, reversed) ==
    IF i > Len(sc) THEN <<>>
    ELSE LoopEdges(sc[i], reversed) \o SceneEdgesFrom(sc, i + 1, reversed)

SceneEdges(scene, pass) == SceneEdgesFrom(Scenes[scene], 1, pass = 1)

InitRaster ==
    /\ RlIdle /\ ChunkConstructed /\ SrConstructed /\ SolidFills /\ TrIdle
    /\ \E sc \in 1 .. Len(Scenes) :
          drv = [scene |-> sc, pass |-> 0, k |-> 0, op |-> "none",
                 e |-> Edge(0, 0, 0, 0, 8, 8, 0), first |-> buf]

\* The caller's next add_edge_line_fill call.
RasterSubmit ==
    /\ rz.pc = "idle"
    /\ drv.op \in {"none", "add"}
    /\ drv.k < Len(SceneEdges(drv.scene, drv.pass))
    /\ LET e == SceneEdges(drv.scene, drv.pass)[drv.k + 1]
       IN /\ add_edge_line_fill(e)
          /\ drv' = [drv EXCEPT !.k = drv.k + 1, !.op = "add", !.e = e]
    /\ UNCHANGED <<scanVars, notSr>>

\* The caller clears the buffer and calls rasterize_to_buffer: any window
\* and either buffer type the first time, the same again the second time.
RasterDraw ==
    /\ drv.op = "add"
    /\ drv.k = Len(SceneEdges(drv.scene, drv.pass))
    /\ \E w \in Windows, buffer_type \in {SR_BUFFER_TYPE_DISPLAY, SR_BUFFER_TYPE_PAYLOAD} :
          /\ drv.pass = 1 =>
                /\ buffer_type = rz.buffer_type
                /\ w = [x_first |-> rz.x_first, y_first |-> rz.y_first,
                        x_dim |-> rz.x_dim, y_dim |-> rz.y_dim]
          /\ RasterizeBegin(buffer_type, 1, w.x_first, w.y_first, w.x_dim, w.y_dim)
          /\ buf' = [i \in 0 .. w.x_dim * w.y_dim - 1 |-> 0]
    /\ drv' = [drv EXCEPT !.op = "draw"]
    /\ UNCHANGED notSr

RasterScanlineBegin == ScanlineBegin /\ UNCHANGED <<drv, notSr>>
RasterScanRl == ScanRl /\ UNCHANGED <<drv, notSr>>
RasterScanlineEnd == ScanlineEnd /\ UNCHANGED <<drv, notSr>>
RasterReturn == RasterizeReturn /\ UNCHANGED <<drv, notSr>>

\* After the first picture: clear_edges, and the caller keeps the picture.
RasterClear ==
    /\ rz.pc = "idle"
    /\ drv.op = "draw"
    /\ drv.pass = 0
    /\ clear_edges
    /\ drv' = [drv EXCEPT !.pass = 1, !.k = 0, !.op = "none", !.first = buf]
    /\ UNCHANGED <<scanVars, notSr>>

NextRaster ==
    \/ RasterSubmit
    \/ RasterDraw
    \/ RasterScanlineBegin
    \/ RasterScanRl
    \/ RasterScanlineEnd
    \/ RasterReturn
    \/ RasterClear

SpecRaster == InitRaster /\ [][NextRaster]_vars

\* Geometry of a loop and a pixel, in screen coordinates.
Cross(b, e, x, y) == (e[1] - b[1]) * (y - b[2]) - (e[2] - b[2]) * (x - b[1])
NextVert(verts, k) == verts[(k % Len(verts)) + 1]

RECURSIVE ShoelaceFrom(_, _)
ShoelaceFrom(verts, k) ==
    IF k > Len(verts) THEN 0
    ELSE verts[k][1] * NextVert(verts, k)[2] - NextVert(verts, k)[1] * verts[k][2]
         + ShoelaceFrom(verts, k + 1)

\* Twice the signed area: negative for a loop that runs counter-clockwise
\* as seen on screen (+y down), positive for one that runs clockwise there.
Shoelace(verts) == ShoelaceFrom(verts, 1)
Sign(v) == IF v > 0 THEN 1 ELSE IF v < 0 THEN 0 - 1 ELSE 0

\* The pixel is on the edge from b to e.
OnSegment(b, e, x, y) ==
    /\ Cross(b, e, x, y) = 0
    /\ x >= Min2(b[1], e[1]) /\ x <= Max2(b[1], e[1])
    /\ y >= Min2(b[2], e[2]) /\ y <= Max2(b[2], e[2])

\* The ray from the pixel towards +x crosses the edge from b to e.
RayCrosses(b, e, x, y) ==
    /\ (b[2] > y) # (e[2] > y)
    /\ LET dy == e[2] - b[2]
           lhs == (x - b[1]) * dy
           rhs == (y - b[2]) * (e[1] - b[1])
       IN IF dy > 0 THEN lhs < rhs ELSE lhs > rhs

OnBoundary(verts, x, y) ==
    \E k \in 1 .. Len(verts) : OnSegment(verts[k], NextVert(verts, k), x, y)
Crossings(verts, x, y) ==
    Cardinality({k \in 1 .. Len(verts) : RayCrosses(verts[k], NextVert(verts, k), x, y)})

\* For a simple loop: the pixel is strictly inside, or strictly outside.
Interior(verts, x, y) == ~OnBoundary(verts, x, y) /\ Crossings(verts, x, y) % 2 = 1
Exterior(verts, x, y) == ~OnBoundary(verts, x, y) /\ Crossings(verts, x, y) % 2 = 0

TheScene == Scenes[drv.scene]
OneLoop == Len(TheScene) = 1
\* The winding the submission of this pass has: the loop's, or its reverse.
WindingNow == IF drv.pass = 1 THEN 0 - Sign(Shoelace(TheScene[1].verts))
              ELSE Sign(Shoelace(TheScene[1].verts))
PictureDone == drv.op = "draw" /\ rz.pc = "idle"
CellX(i) == rz.x_first + (i % rz.x_dim)
CellY(i) == rz.y_first + (i \div rz.x_dim)
FlushedPixels == {p - RL_SP_BIAS : p \in flushed.p_begin .. flushed.p_end - 1}
FlushedX == flushed.s - RL_SP_BIAS
FlushedCell(y) == (FlushedX - rz.x_first) + (y - rz.y_first) * rz.x_dim

\* The lowest-numbered region of 0 .. RL_NUM_REGIONS - 1 with a positive
\* counter, RL_REGION_UNUSED if there is none.
LowestInside(ins) ==
    IF \E r \in 0 .. RL_NUM_REGIONS - 1 : ins[r] > 0
    THEN SetMin({r \in 0 .. RL_NUM_REGIONS - 1 : ins[r] > 0})
    ELSE RL_REGION_UNUSED

\* What a cell drawn as region r holds: the payload of an edge that has r as
\* its line or its fill region, or the two bits of r's fill tile.
DrawnAs(v, r) ==
    IF rz.buffer_type = SR_BUFFER_TYPE_PAYLOAD THEN v = 100 + r \/ v = 200 + r
    ELSE v = Bit(arr_region_fill0[8 * r], 0) + 2 * Bit(arr_region_fill1[8 * r], 0)

EdgeLinePixels(e) ==
    LET swap == ~(e.x_e > e.x_b)
    IN BresPixels([s_b |-> IF swap THEN e.x_e ELSE e.x_b,
                   p_b |-> IF swap THEN e.y_e ELSE e.y_b,
                   s_e |-> IF swap THEN e.x_b ELSE e.x_e,
                   p_e |-> IF swap THEN e.y_b ELSE e.y_e], TRUE, FALSE)

OnEdgeLine(x, y) ==
    \E k \in 1 .. Len(SceneEdges(drv.scene, drv.pass)) :
        <<x, y>> \in EdgeLinePixels(SceneEdges(drv.scene, drv.pass)[k])

\* When a span of a lone loop is flushed, the fill region's counter is
\* positive on the span's interior pixels and zero on its exterior pixels:
\* on all of them, or on those that are on no edge's line.  In the finished
\* picture every interior pixel of the window is filled.
InsidenessMatchesLoop(line_pixels_too) ==
    LET l == TheScene[1]
    IN /\ flushed.valid =>
             \A y \in FlushedPixels :
                 /\ Interior(l.verts, FlushedX, y) => flushed.ins[l.region_fill] > 0
                 /\ (Exterior(l.verts, FlushedX, y)
                       /\ (line_pixels_too \/ ~OnEdgeLine(FlushedX, y)))
                    => flushed.ins[l.region_fill] = 0
       /\ PictureDone =>
             \A i \in DOMAIN buf : Interior(l.verts, CellX(i), CellY(i)) => buf[i] # 0

\* C3 (as stated): a lone loop wound as the claim's square (0,0), (10,0),
\* (10,10), (0,10) has positive insideness for its fill region on every
\* interior pixel when the pixel's span is flushed and zero on every
\* exterior pixel.
C3_InsideLoopAsWritten == (OneLoop /\ WindingNow > 0) => InsidenessMatchesLoop(TRUE)

\* C3 (amended): a lone loop wound counter-clockwise as seen on screen with
\* +y down, as the square (0,0), (0,10), (10,10), (10,0), has positive
\* insideness for its fill region on every interior pixel when the pixel's
\* span is flushed and zero on every exterior pixel that is not a pixel of
\* the Bresenham line of one of its edges.
C3_InsideLoopCCWOnScreen == (OneLoop /\ WindingNow < 0) => InsidenessMatchesLoop(FALSE)

\* In the notch of the notched rectangle a span of exterior pixels is
\* flushed, after a span of the loop in the same scanline.
C3_Witness ==
    /\ OneLoop /\ WindingNow < 0
    /\ TheScene[1].verts = NotchedCCW
    /\ flushed.valid
    /\ flushed.ins[6] = 0
    /\ flushed.p_begin > RzPFirst
    /\ \E y \in FlushedPixels : Exterior(NotchedCCW, FlushedX, y)

Filled(b) == {i \in DOMAIN b : b[i] # 0}
BothPicturesDone == PictureDone /\ drv.pass = 1

MGS_REGION_WALL == 0
MGS_REGION_SLOPE_RIGHT == 1
MGS_REGION_SLOPE_DOWN == 2
MGS_REGION_SLOPE_LEFT == 3
MGS_REGION_SLOPE_UP == 4
MGS_REGION_SANDTRAP == 5
MGS_REGION_WATER == 6
MGS_REGION_FAIRWAY == 7
MGS_REGION_EMPTY == 8
MGS_PAYLOAD_BIT_NON_WALL == 2048
MGS_PAYLOAD_SHIFT_MASK_TRIGGER == 12
MGS_PAYLOAD_MASK_LOW == MGS_PAYLOAD_BIT_NON_WALL - 1

\* v >> k and a | b on Python ints
Shr(v, k) == v \div (2 ^ k)
BitOr(a, b) == a + b - BitAnd(a, b)

wd_init(angle_degrees) == angle_degrees % 360

\* int(math.cos(wd * 0.01745329251) * 1024) and the same of math.sin, for
\* wd = 0 .. 359.  The cosine of 60, 120 and 240 and the sine of 30 come out
\* differing by one between 32-bit and 64-bit floats; the operators are left
\* undefined there, and no behaviour below asks for them.
CosTable_f10 ==
  <<1024, 1023, 1023, 1022, 1021, 1020, 1018, 1016, 1014, 1011, 1008, 1005,
    1001, 997, 993, 989, 984, 979, 973, 968, 962, 955, 949, 942,
    935, 928, 920, 912, 904, 895, 886, 877, 868, 858, 848, 838,
    828, 817, 806, 795, 784, 772, 760, 748, 736, 724, 711, 698,
    685, 671, 658, 644, 630, 616, 601, 587, 572, 557, 542, 527,
    512, 496, 480, 464, 448, 432, 416, 400, 383, 366, 350, 333,
    316, 299, 282, 265, 247, 230, 212, 195, 177, 160, 142, 124,
    107, 89, 71, 53, 35, 17, 0, 0 - 17, 0 - 35, 0 - 53, 0 - 71, 0 - 89,
    0 - 107, 0 - 124, 0 - 142, 0 - 160, 0 - 177, 0 - 195, 0 - 212, 0 - 230, 0 - 247, 0 - 265, 0 - 282, 0 - 299,
    0 - 316, 0 - 333, 0 - 350, 0 - 366, 0 - 383, 0 - 400, 0 - 416, 0 - 432, 0 - 448, 0 - 464, 0 - 480, 0 - 496,
    0 - 511, 0 - 527, 0 - 542, 0 - 557, 0 - 572, 0 - 587, 0 - 601, 0 - 616, 0 - 630, 0 - 644, 0 - 658, 0 - 671,
    0 - 685, 0 - 698, 0 - 711, 0 - 724, 0 - 736, 0 - 748, 0 - 760, 0 - 772, 0 - 784, 0 - 795, 0 - 806, 0 - 817,
    0 - 828, 0 - 838, 0 - 848, 0 - 858, 0 - 868, 0 - 877, 0 - 886, 0 - 895, 0 - 904, 0 - 912, 0 - 920, 0 - 928,
    0 - 935, 0 - 942, 0 - 949, 0 - 955, 0 - 962, 0 - 968, 0 - 973, 0 - 979, 0 - 984, 0 - 989, 0 - 993, 0 - 997,
    0 - 1001, 0 - 1005, 0 - 1008, 0 - 1011, 0 - 1014, 0 - 1016, 0 - 1018, 0 - 1020, 0 - 1021, 0 - 1022, 0 - 1023, 0 - 1023,
    0 - 1024, 0 - 1023, 0 - 1023, 0 - 1022, 0 - 1021, 0 - 1020, 0 - 1018, 0 - 1016, 0 - 1014, 0 - 1011, 0 - 1008, 0 - 1005,
    0 - 1001, 0 - 997, 0 - 993, 0 - 989, 0 - 984, 0 - 979, 0 - 973, 0 - 968, 0 - 962, 0 - 955, 0 - 949, 0 - 942,
    0 - 935, 0 - 928, 0 - 920, 0 - 912, 0 - 904, 0 - 895, 0 - 886, 0 - 877, 0 - 868, 0 - 858, 0 - 848, 0 - 838,
    0 - 828, 0 - 817, 0 - 806, 0 - 795, 0 - 784, 0 - 772, 0 - 760, 0 - 748, 0 - 736, 0 - 724, 0 - 711, 0 - 698,
    0 - 685, 0 - 671, 0 - 658, 0 - 644, 0 - 630, 0 - 616, 0 - 601, 0 - 587, 0 - 572, 0 - 557, 0 - 542, 0 - 527,
    0 - 512, 0 - 496, 0 - 480, 0 - 464, 0 - 448, 0 - 432, 0 - 416, 0 - 400, 0 - 383, 0 - 366, 0 - 350, 0 - 333,
    0 - 316, 0 - 299, 0 - 282, 0 - 265, 0 - 247, 0 - 230, 0 - 212, 0 - 195, 0 - 177, 0 - 160, 0 - 142, 0 - 124,
    0 - 107, 0 - 89, 0 - 71, 0 - 53, 0 - 35, 0 - 17, 0, 17, 35, 53, 71, 89,
    107, 124, 142, 160, 177, 195, 212, 230, 247, 265, 282, 299,
    316, 333, 350, 366, 383, 400, 416, 432, 448, 464, 480, 496,
    511, 527, 542, 557, 572, 587, 601, 616, 630, 644, 658, 671,
    685, 698, 711, 724, 736, 748, 760, 772, 784, 795, 806, 817,
    828, 838, 848, 858, 868, 877, 886, 895, 904, 912, 920, 928,
    935, 942, 949, 955, 962, 968, 973, 979, 984, 989, 993, 997,
    1001, 1005, 1008, 1011, 1014, 1016, 1018, 1020, 1021, 1022, 1023, 1023>>

SinTable_f10 ==
  <<0, 17, 35, 53, 71, 89, 107, 124, 142, 160, 177, 195,
    212, 230, 247, 265, 282, 299, 316, 333, 350, 366, 383, 400,
    416, 432, 448, 464, 480, 496, 511, 527, 542, 557, 572, 587,
    601, 616, 630, 644, 658, 671, 685, 698, 711, 724, 736, 748,
    760, 772, 784, 795, 806, 817, 828, 838, 848, 858, 868, 877,
    886, 895, 904, 912, 920, 928, 935, 942, 949, 955, 962, 968,
    973, 979, 984, 989, 993, 997, 1001, 1005, 1008, 1011, 1014, 1016,
    1018, 1020, 1021, 1022, 1023, 1023, 1024, 1023, 1023, 1022, 1021, 1020,
    1018, 1016, 1014, 1011, 1008, 1005, 1001, 997, 993, 989, 984, 979,
    973, 968, 962, 955, 949, 942, 935, 928, 920, 912, 904, 895,
    886, 877, 868, 858, 848, 838, 828, 817, 806, 795, 784, 772,
    760, 748, 736, 724, 711, 698, 685, 671, 658, 644, 630, 616,
    601, 587, 572, 557, 542, 527, 512, 496, 480, 464, 448, 432,
    416, 400, 383, 366, 350, 333, 316, 299, 282, 265, 247, 230,
    212, 195, 177, 160, 142, 124, 107, 89, 71, 53, 35, 17,
    0, 0 - 17, 0 - 35, 0 - 53, 0 - 71, 0 - 89, 0 - 107, 0 - 124, 0 - 142, 0 - 160, 0 - 177, 0 - 195,
    0 - 212, 0 - 230, 0 - 247, 0 - 265, 0 - 282, 0 - 299, 0 - 316, 0 - 333, 0 - 350, 0 - 366, 0 - 383, 0 - 400,
    0 - 416, 0 - 432, 0 - 448, 0 - 464, 0 - 480, 0 - 496, 0 - 511, 0 - 527, 0 - 542, 0 - 557, 0 - 572, 0 - 587,
    0 - 601, 0 - 616, 0 - 630, 0 - 644, 0 - 658, 0 - 671, 0 - 685, 0 - 698, 0 - 711, 0 - 724, 0 - 736, 0 - 748,
    0 - 760, 0 - 772, 0 - 784, 0 - 795, 0 - 806, 0 - 817, 0 - 828, 0 - 838, 0 - 848, 0 - 858, 0 - 868, 0 - 877,
    0 - 886, 0 - 895, 0 - 904, 0 - 912, 0 - 920, 0 - 928, 0 - 935, 0 - 942, 0 - 949, 0 - 955, 0 - 962, 0 - 968,
    0 - 973, 0 - 979, 0 - 984, 0 - 989, 0 - 993, 0 - 997, 0 - 1001, 0 - 1005, 0 - 1008, 0 - 1011, 0 - 1014, 0 - 1016,
    0 - 1018, 0 - 1020, 0 - 1021, 0 - 1022, 0 - 1023, 0 - 1023, 0 - 1024, 0 - 1023, 0 - 1023, 0 - 1022, 0 - 1021, 0 - 1020,
    0 - 1018, 0 - 1016, 0 - 1014, 0 - 1011, 0 - 1008, 0 - 1005, 0 - 1001, 0 - 997, 0 - 993, 0 - 989, 0 - 984, 0 - 979,
    0 - 973, 0 - 968, 0 - 962, 0 - 955, 0 - 949, 0 - 942, 0 - 935, 0 - 928, 0 - 920, 0 - 912, 0 - 904, 0 - 895,
    0 - 886, 0 - 877, 0 - 868, 0 - 858, 0 - 848, 0 - 838, 0 - 828, 0 - 817, 0 - 806, 0 - 795, 0 - 784, 0 - 772,
    0 - 760, 0 - 748, 0 - 736, 0 - 724, 0 - 711, 0 - 698, 0 - 685, 0 - 671, 0 - 658, 0 - 644, 0 - 630, 0 - 616,
    0 - 601, 0 - 587, 0 - 572, 0 - 557, 0 - 542, 0 - 527, 0 - 512, 0 - 496, 0 - 480, 0 - 464, 0 - 448, 0 - 432,
    0 - 416, 0 - 400, 0 - 383, 0 - 366, 0 - 350, 0 - 333, 0 - 316, 0 - 299, 0 - 282, 0 - 265, 0 - 247, 0 - 230,
    0 - 212, 0 - 195, 0 - 177, 0 - 160, 0 - 142, 0 - 124, 0 - 107, 0 - 89, 0 - 71, 0 - 53, 0 - 35, 0 - 17>>

cos_wd_f10(wd) ==
    CASE wd \notin {60, 120, 240} -> CosTable_f10[wd + 1]

sin_wd_f10(wd) ==
    CASE wd # 30 -> SinTable_f10[wd + 1]

fill_bytes_src_directions0 ==
    <<0, 85, 34, 0, 0, 85, 34, 0,
      0, 68, 102, 0, 0, 68, 102, 0,
      34, 68, 34, 0, 34, 68, 34, 0,
      102, 68, 0, 0, 102, 68, 0, 0,
      34, 85, 0, 0, 34, 85, 0, 0,
      51, 17, 0, 0, 51, 17, 0, 0,
      34, 17, 34, 0, 34, 17, 34, 0,
      0, 17, 51, 0, 0, 17, 51, 0>>

fill_bytes_src_directions1 ==
    <<255, 255, 255, 255, 255, 255, 255, 255,
      255, 255, 255, 255, 255, 255, 255, 255,
      255, 255, 255, 255, 255, 255, 255, 255,
      255, 255, 255, 255, 255, 255, 255, 255,
      255, 255, 255, 255, 255, 255, 255, 255,
      255, 255, 255, 255, 255, 255, 255, 255,
      255, 255, 255, 255, 255, 255, 255, 255,
      255, 255, 255, 255, 255, 255, 255, 255>>

fill_bytes_src_water0 ==
    <<33, 18, 16, 32, 2, 1, 2, 34,
      2, 32, 32, 18, 17, 34, 2, 1,
      0, 2, 1, 34, 34, 18, 17, 34,
      18, 33, 2, 2, 0, 34, 33, 18>>

fill_bytes_src_water1 ==
    <<116, 170, 69, 170, 87, 170, 87, 170,
      170, 117, 170, 71, 170, 119, 170, 84,
      85, 170, 84, 170, 119, 170, 68, 170,
      170, 116, 170, 87, 170, 119, 170, 71>>

fill_bytes_src_regions_bw ==
    <<255, 255, 255, 255, 255, 255, 255, 255,
      0, 85, 34, 0, 0, 85, 34, 0,
      34, 68, 34, 0, 34, 68, 34, 0,
      34, 85, 0, 0, 34, 85, 0, 0,
      34, 17, 34, 0, 34, 17, 34, 0,
      239, 253, 183, 254, 239, 127, 251, 191,
      0, 0, 0, 0, 0, 0, 0, 0,
      0, 0, 0, 0, 0, 0, 0, 0>>

fill_bytes_src_regions0 ==
    <<255, 255, 255, 255, 255, 255, 255, 255,
      0, 85, 34, 0, 0, 85, 34, 0,
      34, 68, 34, 0, 34, 68, 34, 0,
      34, 85, 0, 0, 34, 85, 0, 0,
      34, 17, 34, 0, 34, 17, 34, 0,
      255, 255, 255, 255, 255, 255, 255, 255,
      0, 0, 0, 0, 0, 0, 0, 0,
      0, 0, 0, 0, 0, 0, 0, 0>>

fill_bytes_src_regions1 ==
    <<0, 0, 0, 0, 0, 0, 0, 0,
      255, 255, 255, 255, 255, 255, 255, 255,
      255, 255, 255, 255, 255, 255, 255, 255,
      255, 255, 255, 255, 255, 255, 255, 255,
      255, 255, 255, 255, 255, 255, 255, 255,
      255, 255, 255, 255, 255, 255, 255, 255,
      0, 0, 0, 0, 0, 0, 0, 0,
      255, 255, 255, 255, 255, 255, 255, 255>>

\* copy_fill_bytes_shift, byte i_dst of the destination tile: the source
\* tile (at off_src of the 1-based sequence src) moved delta_x columns with
\* wrap-around, each column rotated delta_y bits.
copy_fill_bytes_shift(src, off_src, i_dst, delta_x, delta_y) ==
    LET byte == src[off_src + ((i_dst - (delta_x % 8)) % 8) + 1]
        shifted == byte * (2 ^ (delta_y % 8))
    IN (shifted % 256) + Shr(shifted, 8)

\* set_fill_bytes_draw: what fill_bytes_draw_regions0 and 1 hold after it.
\* ticks_ms is the clock and use_gray the display mode it finds.
set_fill_bytes_draw(delta_x, delta_y, angle_wd, use_gray, ticks_ms) ==
    LET i_water == Shr(ticks_ms, 8) % 4
        i_off_dir == (angle_wd + 22) \div 45
        non_slope == {MGS_REGION_WALL, MGS_REGION_SANDTRAP, MGS_REGION_FAIRWAY}
        off_src(r) == IF r \in non_slope THEN 8 * r
                      ELSE IF r = MGS_REGION_WATER THEN 8 * i_water
                      ELSE 8 * ((2 * (r - MGS_REGION_SLOPE_RIGHT) + i_off_dir) % 8)
        src0(r) == IF r \in non_slope
                   THEN IF use_gray THEN fill_bytes_src_regions0
                        ELSE fill_bytes_src_regions_bw
                   ELSE IF r = MGS_REGION_WATER THEN fill_bytes_src_water0
                   ELSE fill_bytes_src_directions0
        src1(r) == IF r \in non_slope THEN fill_bytes_src_regions1
                   ELSE IF r = MGS_REGION_WATER THEN fill_bytes_src_water1
                   ELSE fill_bytes_src_directions1
    IN [fill0 |-> [i \in 0 .. 8 * RL_NUM_REGIONS - 1 |->
                     copy_fill_bytes_shift(src0(i \div 8), off_src(i \div 8), i % 8,
                                           delta_x, delta_y)],
        fill1 |-> [i \in 0 .. 8 * RL_NUM_REGIONS - 1 |->
                     copy_fill_bytes_shift(src1(i \div 8), off_src(i \div 8), i % 8,
                                           delta_x, delta_y)]]

\* The arrays as the module creates them: bytearray(64)
FillsZeroed ==
    /\ arr_region_fill0 = [i \in 0 .. 8 * RL_NUM_REGIONS - 1 |-> 0]
    /\ arr_region_fill1 = [i \in 0 .. 8 * RL_NUM_REGIONS - 1 |-> 0]

\* world_to_screen_f10 of the rasterizer t
world_to_screen_f10(t, x_world_f10, y_world_f10) ==
    LET x_f10 == Shr(x_world_f10 * t.scale_f10 + 512, 10)
        y_f10 == Shr(y_world_f10 * t.scale_f10 + 512, 10)
        x_f20 == x_f10 * t.cos_f10 - y_f10 * t.sin_f10
        y_f20 == x_f10 * t.sin_f10 + y_f10 * t.cos_f10
    IN <<Shr(x_f20 + 512, 10) + t.translate_screen_x * 1024,
         Shr(y_f20 + 512, 10) + t.translate_screen_y * 1024>>

set_chunk_data(t, chunk_data) ==
    [t EXCEPT !.chunk_data = chunk_data, !.update_rasterizer_geometry = TRUE]

set_scale_f10(t, scale_f10) ==
    [t EXCEPT !.update_rasterizer_geometry = TRUE, !.scale_f10 = scale_f10,
              !.inv_scale_f10 = 1048576 \div scale_f10]

\* set_angle_wd leaving the geometry flag alone.
set_angle_wd_Unflagged(t, angle_degrees) ==
    [t EXCEPT !.angle_wd = wd_init(angle_degrees),
              !.cos_f10 = cos_wd_f10(wd_init(angle_degrees)),
              !.sin_f10 = sin_wd_f10(wd_init(angle_degrees))]

set_angle_wd(t, angle_degrees) ==
    [t EXCEPT !.update_rasterizer_geometry = TRUE,
              !.angle_wd = wd_init(angle_degrees),
              !.cos_f10 = cos_wd_f10(wd_init(angle_degrees)),
              !.sin_f10 = sin_wd_f10(wd_init(angle_degrees))]

\* set_translate_screen asking for the geometry to be submitted again.
set_translate_screen_Flagged(t, x, y) ==
    [t EXCEPT !.translate_screen_x = x, !.translate_screen_y = y,
              !.update_rasterizer_geometry = TRUE]

set_translate_screen(t, x, y) ==
    [t EXCEPT !.translate_screen_x = x, !.translate_screen_y = y]

add_to_translate_screen(t, delta_x, delta_y) ==
    [t EXCEPT !.translate_screen_x = @ + delta_x, !.translate_screen_y = @ + delta_y]

set_translate_map_world_to_screen_f10(t, xw_f10, yw_f10, xs_f10, ys_f10) ==
    LET actual_f10 == world_to_screen_f10(t, xw_f10, yw_f10)
        xs_actual == Shr(actual_f10[1] + 512, 10)
        ys_actual == Shr(actual_f10[2] + 512, 10)
        xs_desired == Shr(xs_f10 + 512, 10)
        ys_desired == Shr(ys_f10 + 512, 10)
    IN [t EXCEPT !.xw_next_draw_f10 = xw_f10, !.yw_next_draw_f10 = yw_f10,
                 !.translate_screen_x = @ + xs_desired - xs_actual,
                 !.translate_screen_y = @ + ys_desired - ys_actual]

\* _update_fill_patterns: the rasterizer t afterwards; the tiles it hands to
\* set_fill_bytes_draw are those of its delta_x_accum and delta_y_accum.
update_fill_patterns(t) ==
    LET last == world_to_screen_f10(t, t.xw_last_draw_f10, t.yw_last_draw_f10)
        t1 == [t EXCEPT
                 !.delta_x_accum = (@ + Shr(last[1] + 512, 10) - t.xs_last_draw) % 8,
                 !.delta_y_accum = (@ + Shr(last[2] + 512, 10) - t.ys_last_draw) % 8,
                 !.xw_last_draw_f10 = t.xw_next_draw_f10,
                 !.yw_last_draw_f10 = t.yw_next_draw_f10]
        next == world_to_screen_f10(t1, t1.xw_last_draw_f10, t1.yw_last_draw_f10)
    IN [t1 EXCEPT !.xs_last_draw = Shr(next[1] + 512, 10),
                  !.ys_last_draw = Shr(next[2] + 512, 10)]

\* The pool and the count of calls made on the rasterizer, as a caller that
\* makes several calls in one step carries them along.
PoolWithCalls ==
    [arr |-> arr_ptr_rl_sorted, num_rl |-> num_rl, printed |-> sr_printed,
     calls |-> sr_calls]

\* One vertex through scale and rotation, rounded to the nearest pixel.
TransformVertex(t, x, y) ==
    LET xs == x * t.scale_f10
        ys == y * t.scale_f10
    IN <<Shr(xs * t.cos_f10 - ys * t.sin_f10 + 524288, 20),
         Shr(xs * t.sin_f10 + ys * t.cos_f10 + 524288, 20)>>

\* The inner loop of _set_rasterizer_geometry, from edge chunk i_acd_edge up
\* to i_acd_loop: lp holds the loop's parameters, st the begin vertex and the
\* line region and payload carried over from the edge before.
RECURSIVE SetGeometryEdges(_, _, _, _, _, _, _)
SetGeometryEdges(pl, arr, t, lp, i_acd_edge, i_acd_loop, st) ==
    IF i_acd_edge >= i_acd_loop THEN pl
    ELSE
      LET e == TransformVertex(t, arr[i_acd_edge + I_CHUNK_EDGE_X_B],
                               arr[i_acd_edge + I_CHUNK_EDGE_Y_B])
          added == AddEdgeLineFill(pl, st.x_b, st.y_b, e[1], e[2], st.region_line,
                                   lp.region_fill, st.payload_line, lp.payload_fill,
                                   lp.mask_layer)
      IN SetGeometryEdges([added EXCEPT !.calls = @ + 1], arr, t, lp,
                          i_acd_edge + I_CHUNK_NUM_FIELDS, i_acd_loop,
                          [x_b |-> e[1], y_b |-> e[2],
                           region_line |-> arr[i_acd_edge + I_CHUNK_EDGE_REGION_LINE],
                           payload_line |-> Shr(i_acd_edge, 2)])

\* The outer loop of _set_rasterizer_geometry, from loop chunk i_acd_loop.
RECURSIVE SetGeometryLoops(_, _, _, _, _)
SetGeometryLoops(pl, arr, i_acd_end, t, i_acd_loop) ==
    IF i_acd_loop >= i_acd_end THEN pl
    ELSE
      LET mask_trigger_layer == arr[i_acd_loop + I_CHUNK_IF_LOOP_MASK_TRIGGER_LAYER]
          mask_trigger == Shr(mask_trigger_layer, 8)
          region_fill == arr[i_acd_loop + I_CHUNK_LOOP_REGION_FILL]
          lp == [mask_layer |-> mask_trigger_layer % 256,
                 region_fill |-> region_fill,
                 payload_fill |->
                     BitOr(BitOr(region_fill, MGS_PAYLOAD_BIT_NON_WALL),
                           mask_trigger * (2 ^ MGS_PAYLOAD_SHIFT_MASK_TRIGGER))]
          num_edges_loop == arr[i_acd_loop + I_CHUNK_LOOP_NUM_EDGES]
          i_acd_edge_last == i_acd_loop + I_CHUNK_NUM_FIELDS * num_edges_loop
          b == TransformVertex(t, arr[i_acd_edge_last + I_CHUNK_EDGE_X_B],
                               arr[i_acd_edge_last + I_CHUNK_EDGE_Y_B])
          st == [x_b |-> b[1], y_b |-> b[2],
                 region_line |-> arr[i_acd_edge_last + I_CHUNK_EDGE_REGION_LINE],
                 payload_line |-> Shr(i_acd_edge_last, 2)]
      IN IF num_edges_loop = 0
         THEN SetGeometryLoops(pl, arr, i_acd_end, t, i_acd_loop + I_CHUNK_NUM_FIELDS)
         ELSE SetGeometryLoops(
                  SetGeometryEdges(pl, arr, t, lp, i_acd_loop + I_CHUNK_NUM_FIELDS,
                                   i_acd_edge_last + I_CHUNK_NUM_FIELDS, st),
                  arr, i_acd_end, t, i_acd_edge_last + I_CHUNK_NUM_FIELDS)

\* _set_rasterizer_geometry of the rasterizer t whose chunk_data refers to
\* the object cd: clear_edges, then every edge of every loop.
set_rasterizer_geometry(pl, t, cd) ==
    SetGeometryLoops([pl EXCEPT !.num_rl = 0, !.printed = 0, !.calls = @ + 1],
                     cd.arr_chunk_data, I_CHUNK_NUM_FIELDS * cd.num_chunks, t, 0)

\* _maybe_update_rasterizer_geometry: the pool and the rasterizer afterwards.
maybe_update_rasterizer_geometry(pl, t, cd) ==
    IF t.update_rasterizer_geometry
    THEN [pl |-> set_rasterizer_geometry(pl, t, cd),
          t |-> [t EXCEPT !.update_rasterizer_geometry = FALSE]]
    ELSE [pl |-> pl, t |-> t]

(***************************************************************************)
(* SpecTR: one TransformedRasterizer, called by a single thread with any   *)
(* sequence of at most MaxTrCalls setters and draws.  A draw runs          *)
(* rasterize_to_buffer to its end before the next call is made.            *)
(***************************************************************************)
MaxTrCalls == 3
TrWidth == 4            \* width and height of the display and of the
TrHeight == 3           \* payload buffer handed to the draws

\* A loop as the baker is told to add it: add_loop, then loop_add_edge_batch.
TrLoop(verts, region_fill, region_line, mask_layer, mask_trigger) ==
    [verts |-> verts, region_fill |-> region_fill, region_line |-> region_line,
     mask_layer |-> mask_layer, mask_trigger |-> mask_trigger]

RECURSIVE LoopAddEdgeBatch(_, _, _, _)
LoopAddEdgeBatch(cd, verts, k, region_line) ==
    IF k > Len(verts) THEN cd
    ELSE LoopAddEdgeBatch(LoopAddEdgeTo(cd, verts[k][1], verts[k][2], region_line),
                          verts, k + 1, region_line)

RECURSIVE BakeLoops(_, _, _)
BakeLoops(cd, loops, i) ==
    IF i > Len(loops) THEN cd
    ELSE LET l == loops[i]
             added == AddLoopTo(cd, l.region_fill, l.mask_layer, l.mask_trigger)
         IN BakeLoops(LoopAddEdgeBatch(added, l.verts, 1, l.region_line), loops, i + 1)

\* load_level: the chunk array and chunk count of a baked level.
load_level(baked) == [arr_chunk_data |-> baked.arr, num_chunks |-> baked.n]

\* The ChunkData objects a caller may hand over: a walled fairway, and a
\* sandtrap with a trigger mask next to a walled slope on two layers.
ChunkDatas ==
    <<load_level(BakeLoops(NewChunkData,
          <<TrLoop(<<<<0, 0>>, <<0, 2>>, <<3, 2>>, <<3, 0>>>>,
                   MGS_REGION_FAIRWAY, MGS_REGION_WALL, 1, 0)>>, 1)),
      load_level(BakeLoops(NewChunkData,
          <<TrLoop(<<<<0, 0>>, <<1, 3>>, <<3, 1>>>>,
                   MGS_REGION_SANDTRAP, MGS_REGION_EMPTY, 1, 2),
            TrLoop(<<<<2, 0>>, <<2, 2>>, <<4, 2>>, <<4, 0>>>>,
                   MGS_REGION_SLOPE_RIGHT, MGS_REGION_WALL, 3, 0)>>, 1))>>

TrScales == {512, 2048}
TrAngles == {45, 450}
TrTranslations == {<<1, 0>>, <<0 - 1, 1>>}
TrLayers == {1}
TrTicks == {0, 256}

\* The rasterizer is made for the first ChunkData; the module's draw tiles
\* are still zeroed.
InitTR ==
    /\ RlIdle /\ ChunkConstructed /\ SrConstructed /\ drv = DrvIdle
    /\ FillsZeroed
    /\ TrIdle

TrMayCall == rz.pc = "idle" /\ tr_calls < MaxTrCalls

\* A call that touches the rasterizer's own fields only.
TrSetter(op, t) ==
    /\ TrMayCall
    /\ tr' = t
    /\ tr_op' = op
    /\ tr_calls' = tr_calls + 1
    /\ tr_submitted' = FALSE
    /\ UNCHANGED <<srVars, fillVars, notTr>>

TrSetChunkData ==
    \E chunk_data \in 1 .. Len(ChunkDatas) :
        TrSetter("set_chunk_data", set_chunk_data(tr, chunk_data))

TrSetScale ==
    \E scale_f10 \in TrScales : TrSetter("set_scale_f10", set_scale_f10(tr, scale_f10))

TrSetAngle ==
    \E angle_degrees \in TrAngles :
        TrSetter("set_angle_wd", set_angle_wd(tr, angle_degrees))

TrSetTranslate ==
    \E xy \in TrTranslations :
        TrSetter("set_translate_screen", set_translate_screen(tr, xy[1], xy[2]))

TrAddToTranslate ==
    \E d \in TrTranslations :
        TrSetter("add_to_translate_screen", add_to_translate_screen(tr, d[1], d[2]))

\* The world point (1, 2) is to show at the screen point (1.5, 0.5).
TrSetTranslateMap ==
    TrSetter("set_translate_map_world_to_screen_f10",
             set_translate_map_world_to_screen_f10(tr, 1024, 2048, 1536, 512))

\* rasterize_to_display up to the main loop of rasterize_to_buffer, on a
\* blank display.
TrRasterizeToDisplay ==
    /\ TrMayCall
    /\ \E mask_layer \in TrLayers, use_gray \in BOOLEAN, ticks_ms \in TrTicks :
          LET u == maybe_update_rasterizer_geometry(PoolWithCalls, tr,
                                                    ChunkDatas[tr.chunk_data])
              t == update_fill_patterns(u.t)
              fills == set_fill_bytes_draw(t.delta_x_accum, t.delta_y_accum, t.angle_wd,
                                           use_gray, ticks_ms)
          IN /\ RasterizeBeginOn(u.pl, SR_BUFFER_TYPE_DISPLAY, mask_layer,
                                 0 - t.translate_screen_x, 0 - t.translate_screen_y,
                                 TrWidth, TrHeight)
             /\ sr_printed' = u.pl.printed
             /\ sr_calls' = u.pl.calls
             /\ tr' = t
             /\ arr_region_fill0' = fills.fill0
             /\ arr_region_fill1' = fills.fill1
    /\ buf' = [i \in 0 .. TrWidth * TrHeight - 1 |-> 0]
    /\ tr_op' = "rasterize_to_display"
    /\ tr_calls' = tr_calls + 1
    /\ tr_submitted' = tr.update_rasterizer_geometry
    /\ UNCHANGED <<drv, notTr>>

\* rasterize_payload up to the main loop of rasterize_to_buffer.
TrRasterizePayload ==
    /\ TrMayCall
    /\ \E mask_layer \in TrLayers :
          LET u == maybe_update_rasterizer_geometry(PoolWithCalls, tr,
                                                    ChunkDatas[tr.chunk_data])
          IN /\ RasterizeBeginOn(u.pl, SR_BUFFER_TYPE_PAYLOAD, mask_layer,
                                 0 - u.t.translate_screen_x, 0 - u.t.translate_screen_y,
                                 TrWidth, TrHeight)
             /\ sr_printed' = u.pl.printed
             /\ sr_calls' = u.pl.calls
             /\ tr' = u.t
    /\ buf' = [i \in 0 .. TrWidth * TrHeight - 1 |->
                 BitOr(MGS_REGION_EMPTY, MGS_PAYLOAD_BIT_NON_WALL)]
    /\ tr_op' = "rasterize_payload"
    /\ tr_calls' = tr_calls + 1
    /\ tr_submitted' = tr.update_rasterizer_geometry
    /\ UNCHANGED <<drv, fillVars, notTr>>

NextTR ==
    \/ TrSetChunkData
    \/ TrSetScale
    \/ TrSetAngle
    \/ TrSetTranslate
    \/ TrAddToTranslate
    \/ TrSetTranslateMap
    \/ TrRasterizeToDisplay
    \/ TrRasterizePayload
    \/ RasterScanlineBegin
    \/ RasterScanRl
    \/ RasterScanlineEnd
    \/ RasterReturn

SpecTR == InitTR /\ [][NextTR]_vars

\* What of an RL rl_init writes and no step of the rasterizer changes.
RlStatic(r) ==
    [s_b |-> r.s_b, p_b |-> r.p_b, s_e |-> r.s_e, p_e |-> r.p_e,
     f_dp_pos |-> r.f_dp_pos, f_past_exit |-> r.f_past_exit,
     f_am_is_ap |-> r.f_am_is_ap, f_correct |-> r.f_correct, layer |-> r.layer % 16,
     a_s |-> r.a_s, a_p |-> r.a_p, r0 |-> r.r0, r1 |-> r.r1,
     pay0 |-> r.pay0, pay1 |-> r.pay1]

\* The pools a and b hold the same RLs, in whatever order.
SameRls(a, b) ==
    /\ a.num_rl = b.num_rl
    /\ \A i \in 0 .. a.num_rl - 1 :
          Cardinality({j \in 0 .. a.num_rl - 1 : RlStatic(a.arr[j]) = RlStatic(a.arr[i])})
          = Cardinality({j \in 0 .. b.num_rl - 1 : RlStatic(b.arr[j]) = RlStatic(a.arr[i])})

\* The rasterizer holds what a submission of the current chunk data with the
\* current scale and rotation puts into it.
HoldsCurrentGeometry ==
    SameRls(PoolWithCalls,
            set_rasterizer_geometry(PoolWithCalls, tr, ChunkDatas[tr.chunk_data]))

TrDraws == {"rasterize_to_display", "rasterize_payload"}
TrDirtying == {"set_scale_f10", "set_angle_wd", "set_chunk_data"}

\* C10: a call of set_scale_f10, set_angle_wd or set_chunk_data leaves the
\* geometry flag set, and from the moment a draw reaches rasterize_to_buffer
\* until it returns the flag is clear and the RLs in the rasterizer are those
\* of the current chunk data under the current scale and rotation.
C10_DrawsCurrentGeometry ==
    /\ [](rz.pc # "idle" => (~tr.update_rasterizer_geometry /\ HoldsCurrentGeometry))
    /\ [][(tr_calls' # tr_calls /\ tr_op' \in TrDirtying)
          => tr'.update_rasterizer_geometry]_vars

\* A draw has reached rasterize_to_buffer, the rotation
\* and the chunk data having been changed since construction.
C10_Witness ==
    /\ tr_op \in TrDraws
    /\ rz.pc = "scan"
    /\ tr.angle_wd = 45
    /\ tr.chunk_data = 2
    /\ num_rl > 0

TrTranslating ==
    {"set_translate_screen", "add_to_translate_screen",
     "set_translate_map_world_to_screen_f10"}

\* C11: a call of set_translate_screen, add_to_translate_screen or
\* set_translate_map_world_to_screen_f10 leaves the geometry flag and the RL
\* pool as they were; a draw that finds the flag clear makes no clear_edges
\* or add_edge_line_fill call and keeps the RLs of the pool; and every draw
\* hands (-translate_screen_x, -translate_screen_y) to rasterize_to_buffer
\* as the origin of the window.
C11_TranslationOnlyMovesWindow ==
    [][/\ (tr_calls' # tr_calls /\ tr_op' \in TrTranslating)
          => /\ tr'.update_rasterizer_geometry = tr.update_rasterizer_geometry
             /\ UNCHANGED <<num_rl, arr_ptr_rl_sorted, sr_calls>>
       /\ (tr_calls' # tr_calls /\ tr_op' \in TrDraws)
          => /\ rz'.x_first = 0 - tr'.translate_screen_x
             /\ rz'.y_first = 0 - tr'.translate_screen_y
             /\ ~tr.update_rasterizer_geometry
                   => /\ sr_calls' = sr_calls
                      /\ SameRls(PoolWithCalls, PoolWithCalls')]_vars

\* A draw has reached rasterize_to_buffer without submitting the geometry
\* again, through a window that the translation has moved.
C11_Witness ==
    /\ tr_op \in TrDraws
    /\ rz.pc = "scan"
    /\ ~tr_submitted
    /\ num_rl > 0
    /\ rz.x_first # 0

(***************************************************************************)
(* SpecW2S: a TransformedRasterizer whose scale, rotation and translation  *)
(* have been set, asked where a world vertex shows on screen.              *)
(***************************************************************************)
W2sScales == {362, 2048}
MaxW2sCoord == 3        \* vertices have coordinates in -MaxW2sCoord .. MaxW2sCoord

InitW2S == InitTR

\* The caller sets the transform up and then asks once.
W2sSetScale ==
    /\ ~w2s.asked
    /\ \E scale_f10 \in W2sScales :
          TrSetter("set_scale_f10", set_scale_f10(tr, scale_f10))

W2sSetAngle == ~w2s.asked /\ TrSetAngle

W2sSetTranslate == ~w2s.asked /\ TrSetTranslate

\* The caller transforms the integer vertex (x, y) with world_to_screen_f10
\* of the rasterizer as it is (by); submitted is what _set_rasterizer_geometry
\* makes of the same vertex.
W2sAsk ==
    /\ ~w2s.asked
    /\ \E x \in 0 - MaxW2sCoord .. MaxW2sCoord, y \in 0 - MaxW2sCoord .. MaxW2sCoord :
          w2s' = [asked |-> TRUE, by |-> tr, x |-> x, y |-> y,
                  screen_f10 |-> world_to_screen_f10(tr, x * 1024, y * 1024),
                  submitted |-> TransformVertex(tr, x, y)]
    /\ UNCHANGED <<rlVars, chunkVars, srVars, fillVars, trVars, ballVars>>

NextW2S == W2sSetScale \/ W2sSetAngle \/ W2sSetTranslate \/ W2sAsk

SpecW2S == InitW2S /\ [][NextW2S]_vars

\* (v + 0x200) >> 10 of both coordinates
RoundF10(v_f10) == <<Shr(v_f10[1] + 512, 10), Shr(v_f10[2] + 512, 10)>>

\* C12: the screen pixel that world_to_screen_f10 gives for an integer
\* world vertex, rounded to an integer, is the coordinate that
\* _set_rasterizer_geometry submits for the vertex plus the translation.
C12_ScreenPixelIsSubmittedVertex ==
    w2s.asked =>
        RoundF10(w2s.screen_f10) = <<w2s.submitted[1] + w2s.by.translate_screen_x,
                                     w2s.submitted[2] + w2s.by.translate_screen_y>>

\* C12 at the scale the constructor sets, 1024: there the two agree.
C12_AgreeAtUnitScale ==
    (w2s.asked /\ w2s.by.scale_f10 = 1024) =>
        RoundF10(w2s.screen_f10) = <<w2s.submitted[1] + w2s.by.translate_screen_x,
                                     w2s.submitted[2] + w2s.by.translate_screen_y>>

(***************************************************************************)
(* rl_seek_s_to against rl_init followed by rl_increment_s calls.          *)
(***************************************************************************)
RECURSIVE RlWalked(_, _)
RlWalked(r, n) == IF n = 0 THEN r ELSE RlWalked(rl_increment_s(r), n - 1)

\* The RL that rl_init and then rl_increment_s calls leave at scanline s.
RlInitWalkedTo(s) == RlWalked(RlOfSeekSeg(seg), s - seg.s_b)

\* C17 (as stated): every rl_seek_s_to(target) leaves the RL at scanline
\* min(max(target, begin), end), in the state rl_init followed by that many
\* rl_increment_s calls gives.
C17_SeekClampsBothEnds ==
    [][rl_call'.op = "rl_seek_s_to"
          => rlt' = RlInitWalkedTo(Min2(Max2(rl_call'.target, seg.s_b), seg.s_e))]_vars

\* C17 (amended): rl_seek_s_to(target) with target at or below the end
\* scanline leaves the RL at scanline max(target, begin), in the state
\* rl_init followed by that many rl_increment_s calls gives; with target
\* above the end scanline it leaves the RL as it was.
C17_SeekClampsAtBegin ==
    [][rl_call'.op = "rl_seek_s_to"
          => rlt' = IF rl_call'.target > seg.s_e THEN rlt
                    ELSE RlInitWalkedTo(Max2(rl_call'.target, seg.s_b))]_vars

\* A seek to a target above the end scanline made on a steep RL with
\* endpoint correction that stood, and stands, before its end scanline
\* after an earlier seek or increment moved it off its begin scanline.
C17_Witness ==
    /\ rl_call.op = "rl_seek_s_to"
    /\ rl_call.target > seg.s_e
    /\ rl_call.s_before > seg.s_b
    /\ rlt.s < seg.s_e
    /\ rlt.f_correct

(***************************************************************************)
(* rl_increment_s: one scanline at a time, up to the end scanline.         *)
(***************************************************************************)
\* C18: every rl_increment_s call raises the scanline by exactly one when
\* the RL is before its end scanline and leaves every field unchanged when
\* it is at its end scanline; the scanline never passes the end scanline,
\* and the begin and end pairs, the regions, the payloads, the layer mask
\* and the past-exit flag stay as rl_init wrote them.
C18_IncrementStepsOneScanline ==
    [][rl_call'.op = "rl_increment_s"
          => /\ IF rlt.s < rlt.s_e THEN rlt'.s = rlt.s + 1 ELSE rlt' = rlt
             /\ rlt'.s <= rlt'.s_e
             /\ \A f \in {"s_b", "p_b", "s_e", "p_e", "r0", "r1", "pay0", "pay1",
                           "layer", "f_past_exit"} : rlt'[f] = rlt[f]]_vars

\* An rl_increment_s call made on an RL of layer mask 15 that stood at its
\* end scanline, more than one scanline after its begin scanline.
C18_Witness ==
    /\ rl_call.op = "rl_increment_s"
    /\ rl_call.s_before = seg.s_e
    /\ rlt.s = seg.s_e
    /\ seg.s_e > seg.s_b + 1
    /\ seg.layer = 15

(***************************************************************************)
(* The composite scan: what one RL does to the insideness counters.        *)
(***************************************************************************)
\* A step of the loop over the RLs of the scanline.
ScanRlStep == rz.pc = "rl" /\ rz'.pc = "rl" /\ rz'.i_rl_in_s = rz.i_rl_in_s + 1

\* +2 for an enter RL, -2 for a past-exit RL, halved on the first and the
\* last scanline of the RL, the ones that hold an endpoint of its edge.
EdgeContribution(rl) ==
    LET magnitude == IF rl.s = rl.s_b \/ rl.s = rl.s_e THEN 1 ELSE 2
    IN IF rl.f_past_exit THEN 0 - magnitude ELSE magnitude

\* C19: in the scan of a scanline, an RL whose layer mask intersects the
\* requested mask adds the same amount to the counter of each of its two
\* regions: +2 (enter) or -2 (past-exit) on an interior scanline of its
\* edge, +1 or -1 on a scanline holding an endpoint of the edge; an RL
\* whose layer mask does not intersect it changes no counter and no payload.
C19_RlContribution ==
    [][ScanRlStep =>
          LET rl == arr_ptr_rl_sorted[rz.i_rl_in_s]
              d == EdgeContribution(rl)
          IN IF BitAnd(rl.layer, rz.mask_layer) # 0
             THEN \A i \in 0 .. RL_NUM_REGIONS :
                      arr_region_insideness'[i] =
                          arr_region_insideness[i] + (IF i = rl.r0 THEN d ELSE 0)
                                                   + (IF i = rl.r1 THEN d ELSE 0)
             ELSE UNCHANGED <<arr_region_insideness, arr_region_payload>>]_vars

\* The scan has just passed an RL of a layer that is not drawn, inside a
\* loop whose enter RL added 2 on an interior scanline of its edge.
C19_Witness ==
    /\ rz.pc = "rl"
    /\ rz.i_rl_in_s > rz.i_rl_s_begin
    /\ BitAnd(arr_ptr_rl_sorted[rz.i_rl_in_s - 1].layer, rz.mask_layer) = 0
    /\ \E i \in 0 .. RL_NUM_REGIONS - 1 : arr_region_insideness[i] = 2

(***************************************************************************)
(* The ordering of the RL index during rasterize_to_buffer.                *)
(***************************************************************************)
IndexSorted(arr, n) == \A i \in 1 .. n - 1 : SP(arr[i - 1]) <= SP(arr[i])

\* The processing of scanline rz.s is about to inspect its first RL.
AtScanlineStart == rz.pc = "rl" /\ rz.i_rl_in_s = rz.i_rl_s_begin

\* [i_rl_s_begin, i_rl_s_end) holds the RLs at rz.s in position order, the
\* RLs before it ended below rz.s, the RLs after it are above rz.s.
RangeHoldsScanline ==
    /\ rz.i_rl_s_begin < rz.i_rl_s_end
    /\ rz.i_rl_s_end <= num_rl
    /\ \A i \in 0 .. num_rl - 1 :
          LET r == arr_ptr_rl_sorted[i]
          IN IF i < rz.i_rl_s_begin THEN r.s < rz.s /\ r.s_e < rz.s
             ELSE IF i < rz.i_rl_s_end
             THEN /\ r.s = rz.s
                  /\ i > rz.i_rl_s_begin => arr_ptr_rl_sorted[i - 1].p <= r.p
             ELSE r.s > rz.s

\* C20: rasterize_to_buffer leaves its seek and sort of the whole index
\* with the index sorted by (scanline, position); at the start of the
\* processing of each scanline s the range [i_rl_s_begin, i_rl_s_end) holds
\* exactly the RLs at s, in non-decreasing position order, every RL before
\* the range having ended below s and every RL after it standing above s;
\* no step of the call drops or duplicates an RL of the index.
C20_IndexStaysOrdered ==
    /\ [](AtScanlineStart => RangeHoldsScanline)
    /\ [][/\ (rz.pc = "idle" /\ rz'.pc = "scan") => IndexSorted(arr_ptr_rl_sorted', num_rl')
          /\ (rz.pc # "idle" \/ rz'.pc # "idle")
                => SameRls([arr |-> arr_ptr_rl_sorted, num_rl |-> num_rl],
                           [arr |-> arr_ptr_rl_sorted', num_rl |-> num_rl'])]_vars

\* A scanline starts whose range holds an RL that begins at it and an RL
\* carried over from the scanline before, with ended RLs before the range
\* and RLs of later scanlines after it.
C20_Witness ==
    /\ AtScanlineStart
    /\ 0 < rz.i_rl_s_begin
    /\ rz.i_rl_s_end < num_rl
    /\ \E i, j \in rz.i_rl_s_begin .. rz.i_rl_s_end - 1 :
          /\ arr_ptr_rl_sorted[i].s_b = rz.s
          /\ arr_ptr_rl_sorted[j].s_b < rz.s

(***************************************************************************)
(* BallState.  A ball is a record of the fields of the object; the helpers *)
(* take the ball and return the ball afterwards.  The viper helpers work   *)
(* on 32-bit ints; every product formed below stays far inside that range  *)
(* for the levels, speeds and timesteps of SpecBall.                       *)
(***************************************************************************)
BALL_DIAMETER == 5
BALL_RADIUS_FLOOR == 2
BALL_HOLE_DIAMETER == 9
BALL_HOLE_RADIUS_SQ_F20 == 21233664
BALL_HOLE_SLOW_F20 == 10240
BALL_HOLE_ANG_DEFLECT == 60
BALL_HOLE_MAX_SPEED_ENTER_F10 == 110
BALL_COEFF_GRASS_F20 == 15
BALL_COEFF_SAND_F20 == 100
BALL_SUBTR_WALL_F20 == 24000
BALL_COEFF_SLOPE_F20 == 128
BALL_COEFF_A == 3
BALL_DELTA_W_STOPPED_F10 == 1024
BALL_MS_BEFORE_STOPPED == 500
BALL_MS_BEFORE_SINK == 100

\* int(math.sqrt(x)) for x >= 0: the largest r with r * r <= x, looked for
\* between lo and hi.
RECURSIVE SqrtBetween(_, _, _)
SqrtBetween(x, lo, hi) ==
    IF lo = hi THEN lo
    ELSE LET mid == (lo + hi + 1) \div 2
         IN IF mid * mid <= x THEN SqrtBetween(x, mid, hi)
            ELSE SqrtBetween(x, lo, mid - 1)

sqrt_int(x) == SqrtBetween(x, 0, 2 ^ 16)

velocity_hits_normal_wd(v_angle_wd, normal_wd) ==
    LET diff == Abs(v_angle_wd - normal_wd)
    IN diff > 90 /\ diff < 270

\* A reflection that leaves out the half turn.
reflect_velocity_about_normal_wd_NoHalfTurn(v_angle_wd, normal_wd) ==
    (normal_wd * 2 - v_angle_wd) % 360

reflect_velocity_about_normal_wd(v_angle_wd, normal_wd) ==
    (normal_wd * 2 - v_angle_wd - 180) % 360

\* An endpoint normal that always halves the arc from normal 0 onwards.
get_endpoint_normal_wd_ArcFromZero(normal0_wd, normal1_wd) ==
    (normal0_wd + Shr((normal1_wd - normal0_wd) % 360, 1)) % 360

get_endpoint_normal_wd(normal0_wd, normal1_wd) ==
    LET zero_to_one_wd == (normal1_wd - normal0_wd) % 360
    IN IF zero_to_one_wd < 180
       THEN (normal0_wd + Shr(zero_to_one_wd, 1)) % 360
       ELSE (normal0_wd + Shr(zero_to_one_wd, 1) + 180) % 360

update_last_shot(b) ==
    [b EXCEPT !.xw_last_shot_f10 = b.xw_f10, !.yw_last_shot_f10 = b.yw_f10]

set_mask_layer(b, mask_layer) == [b EXCEPT !.mask_layer = mask_layer]

set_on_sand(b, on_sand) == [b EXCEPT !.on_sand = on_sand]

\* A ball that sinks as soon as its time in water reaches the limit.
set_water_status_SinksAtLimit(b, water_ms) ==
    IF water_ms >= BALL_MS_BEFORE_SINK
    THEN [b EXCEPT !.water_ms = water_ms, !.in_water = TRUE, !.is_stopped = TRUE]
    ELSE [b EXCEPT !.water_ms = water_ms]

set_water_status(b, water_ms) ==
    IF water_ms > BALL_MS_BEFORE_SINK
    THEN [b EXCEPT !.water_ms = water_ms, !.in_water = TRUE, !.is_stopped = TRUE]
    ELSE [b EXCEPT !.water_ms = water_ms]

reset_is_stopped(b) ==
    [b EXCEPT !.is_stopped = FALSE, !.ms_below_stop_threshold = 0,
              !.xw_exp_avg_f10 = b.xw_f10 + 4096,
              !.yw_exp_avg_f10 = b.yw_f10 + 4096]

reset_ball(b) ==
    [b EXCEPT !.maybe_i_chunk_contact0 = 0 - 1, !.maybe_i_chunk_contact1 = 0 - 1,
              !.in_hole = FALSE, !.ignore_hole_line = FALSE,
              !.is_stopped = FALSE, !.ms_below_stop_threshold = 0,
              !.xw_exp_avg_f10 = b.xw_f10, !.yw_exp_avg_f10 = b.yw_f10,
              !.water_ms = 0, !.in_water = FALSE,
              !.xw_last_shot_f10 = b.xw_f10, !.yw_last_shot_f10 = b.yw_f10]

move_to_last_shot(b) ==
    reset_ball([b EXCEPT !.xw_f10 = b.xw_last_shot_f10,
                         !.yw_f10 = b.yw_last_shot_f10])

set_location_f10(b, xw_f10, yw_f10) ==
    [b EXCEPT !.xw_f10 = xw_f10, !.yw_f10 = yw_f10]

reset_location_f10(b, xw_f10, yw_f10) ==
    reset_ball([set_location_f10(b, xw_f10, yw_f10) EXCEPT !.on_sand = FALSE])

\* A hole status that never takes note of a handled crossing.
set_hole_status_NoIgnore(b, in_hole, ignore_hole_line) ==
    [b EXCEPT !.in_hole = in_hole]

set_hole_status(b, in_hole, ignore_hole_line) ==
    [b EXCEPT !.in_hole = in_hole, !.ignore_hole_line = ignore_hole_line]

set_location_hole_f10(b, xw_hole_f10, yw_hole_f10) ==
    set_hole_status([b EXCEPT !.xw_hole_f10 = xw_hole_f10,
                              !.yw_hole_f10 = yw_hole_f10], FALSE, FALSE)

set_velocity_wd_f20(b, angle_wd, w_per_ms_f20) ==
    [b EXCEPT !.v_angle_wd = wd_init(angle_wd), !.v_w_per_ms_f20 = w_per_ms_f20]

reset_velocity_wd_f20(b, angle_wd, w_per_ms_f20) ==
    reset_ball(set_velocity_wd_f20(b, angle_wd, w_per_ms_f20))

set_maybe_i_chunk_contact(b, maybe_i_chunk_contact0, maybe_i_chunk_contact1) ==
    [b EXCEPT !.maybe_i_chunk_contact0 = maybe_i_chunk_contact0,
              !.maybe_i_chunk_contact1 = maybe_i_chunk_contact1]

\* tan((k - 1/2) degrees) * 2^20 to the nearest integer, for k = 1 .. 90.
TanHalfDegrees_f20 ==
  <<9151, 27458, 45782, 64134, 82525, 100966,
    119470, 138048, 156711, 175471, 194342, 213335,
    232464, 251741, 271180, 290796, 310602, 330615,
    350849, 371320, 392047, 413045, 434334, 455934,
    477864, 500145, 522801, 545854, 569330, 593256,
    617658, 642568, 668017, 694037, 720666, 747942,
    775905, 804601, 834075, 864379, 895569, 927702,
    960843, 995061, 1030433, 1067039, 1104969, 1144320,
    1185200, 1227725, 1272024, 1318241, 1366531, 1417069,
    1470049, 1525688, 1584226, 1645935, 1711121, 1780129,
    1853352, 1931237, 2014296, 2103118, 2198385, 2300890,
    2411560, 2531486, 2661965, 2804544, 2961087, 3133863,
    3325658, 3539933, 3781043, 4054543, 4367633, 4729821,
    5153916, 5657610, 6266043, 7016186, 7964725, 9203233,
    10889878, 13323421, 17144066, 24016339, 40043502, 120154908>>

\* floor(theta + 1/2) for the angle theta in degrees, 0 <= theta <= 180, of
\* the vector (x, y) with y >= 0.
RoundedDegrees(x, y) ==
    IF x > 0
    THEN Cardinality({k \in 1 .. 90 : y * (2 ^ 20) >= x * TanHalfDegrees_f20[k]})
    ELSE IF x = 0 THEN 90
    ELSE 180 - Cardinality({k \in 1 .. 90 :
                               y * (2 ^ 20) > (0 - x) * TanHalfDegrees_f20[k]})

\* int(math.atan2(y, x) * COEFF_RADIANS_TO_DEGREES + 0.5): int() rounds
\* towards zero.  Both float widths give this for |x|, |y| <= 300.
Atan2Degrees(y, x) ==
    IF y >= 0 THEN RoundedDegrees(x, y)
    ELSE 0 - Max2(RoundedDegrees(x, 0 - y) - 1, 0)

set_velocity_vector_f10(b, xw_per_ms_f10, yw_per_ms_f10) ==
    IF xw_per_ms_f10 = 0 /\ yw_per_ms_f10 = 0
    THEN set_velocity_wd_f20(b, b.v_angle_wd, 0)
    ELSE LET angle_wd == Atan2Degrees(yw_per_ms_f10, xw_per_ms_f10) % 360
             norm_squared_f20 == xw_per_ms_f10 * xw_per_ms_f10
                                 + yw_per_ms_f10 * yw_per_ms_f10
         IN set_velocity_wd_f20(b, angle_wd, sqrt_int(norm_squared_f20) * 1024)

\* The part of _maybe_advance_to_hole_interaction past the test against the
\* slow speed: the ball b, not in the hole, meets the hole line or not.
HoleLineInteraction(b, delta_ms, w_range_f10) ==
    LET hole_radius_f10 == BALL_HOLE_DIAMETER * (2 ^ 9)
        vx_unit_f10 == cos_wd_f10(b.v_angle_wd)
        vy_unit_f10 == sin_wd_f10(b.v_angle_wd)
        dist_signed_w_to_intersect_f10 ==
            Shr((b.xw_hole_f10 - b.xw_f10) * vx_unit_f10
                + (b.yw_hole_f10 - b.yw_f10) * vy_unit_f10 + 512, 10)
        xw_f10 == b.xw_f10 + Shr(dist_signed_w_to_intersect_f10 * vx_unit_f10 + 512, 10)
        yw_f10 == b.yw_f10 + Shr(dist_signed_w_to_intersect_f10 * vy_unit_f10 + 512, 10)
        abs_delta_xw_to_hole_f10 == Abs(b.xw_hole_f10 - xw_f10)
        abs_delta_yw_to_hole_f10 == Abs(b.yw_hole_f10 - yw_f10)
        dist_w_sq_to_hole_f20 ==
            abs_delta_xw_to_hole_f10 * abs_delta_xw_to_hole_f10
            + abs_delta_yw_to_hole_f10 * abs_delta_yw_to_hole_f10
        ms_sand == (dist_signed_w_to_intersect_f10 * delta_ms) \div w_range_f10
        v_w_per_ms_f20 == Max2(b.v_w_per_ms_f20 - BALL_COEFF_SAND_F20 * ms_sand, 0)
        moved == set_velocity_wd_f20(
                     set_hole_status(
                         set_maybe_i_chunk_contact(
                             set_location_f10(b, xw_f10, yw_f10), 0 - 1, 0 - 1),
                         b.in_hole, TRUE),
                     b.v_angle_wd, v_w_per_ms_f20)
        frac_max_entry_speed_f10 == v_w_per_ms_f20 \div BALL_HOLE_MAX_SPEED_ENTER_F10
        dist_w_to_hole_f10 == sqrt_int(dist_w_sq_to_hole_f20)
        frac_towards_center_f10 ==
            1024 - ((dist_w_to_hole_f10 * 2) \div BALL_HOLE_DIAMETER)
        frac_deflection_f10 ==
            1024 - frac_max_entry_speed_f10 * 2 + frac_towards_center_f10
        delta_ang_deflect == Shr(frac_deflection_f10 * BALL_HOLE_ANG_DEFLECT + 512, 10)
        dot == vy_unit_f10 * (xw_f10 - b.xw_hole_f10)
               - vx_unit_f10 * (yw_f10 - b.yw_hole_f10)
    IN IF dist_signed_w_to_intersect_f10 < 0
          \/ dist_signed_w_to_intersect_f10 > w_range_f10
       THEN [b |-> b, handled |-> FALSE]
       ELSE IF abs_delta_xw_to_hole_f10 > hole_radius_f10
               \/ abs_delta_yw_to_hole_f10 > hole_radius_f10
       THEN [b |-> b, handled |-> FALSE]
       ELSE IF dist_w_sq_to_hole_f20 > BALL_HOLE_RADIUS_SQ_F20
       THEN [b |-> b, handled |-> FALSE]
       ELSE IF frac_towards_center_f10 > frac_max_entry_speed_f10
       THEN [b |-> reset_is_stopped(set_hole_status(moved, TRUE, TRUE)),
             handled |-> TRUE]
       ELSE IF frac_deflection_f10 < 0
       THEN [b |-> moved, handled |-> TRUE]
       ELSE [b |-> set_velocity_wd_f20(
                       moved,
                       IF dot > 0 THEN wd_init(b.v_angle_wd + delta_ang_deflect)
                       ELSE wd_init(b.v_angle_wd - delta_ang_deflect),
                       v_w_per_ms_f20),
             handled |-> TRUE]

\* An animation that carries the ball away from the hole centre.
InHoleAnimation_AwayFromHole(b, delta_ms) ==
    LET a_f10 == 0 - BALL_COEFF_A * delta_ms
    IN [b |-> set_location_f10(
                  b,
                  Shr(a_f10 * b.xw_hole_f10 + (1024 - a_f10) * b.xw_f10 + 512, 10),
                  Shr(a_f10 * b.yw_hole_f10 + (1024 - a_f10) * b.yw_f10 + 512, 10)),
        handled |-> TRUE]

\* The early out of _maybe_advance_to_hole_interaction for a ball in the
\* hole: animate it towards the hole centre; the timestep is handled.
InHoleAnimation(b, delta_ms) ==
    LET a_f10 == BALL_COEFF_A * delta_ms
    IN [b |-> set_location_f10(
                  b,
                  Shr(a_f10 * b.xw_hole_f10 + (1024 - a_f10) * b.xw_f10 + 512, 10),
                  Shr(a_f10 * b.yw_hole_f10 + (1024 - a_f10) * b.yw_f10 + 512, 10)),
        handled |-> TRUE]

\* A hole interaction without the roll-in of a slow ball past the lip.
maybe_advance_to_hole_interaction_NoRollIn(b, delta_ms) ==
    LET a_f10 == BALL_COEFF_A * delta_ms
        abs_delta_xw_to_hole_f10 == Abs(b.xw_hole_f10 - b.xw_f10)
        abs_delta_yw_to_hole_f10 == Abs(b.yw_hole_f10 - b.yw_f10)
        hole_radius_f10 == BALL_HOLE_DIAMETER * (2 ^ 9)
        w_range_f10 == Shr(b.v_w_per_ms_f20 * delta_ms + 512, 10)
        far == abs_delta_xw_to_hole_f10 > hole_radius_f10
               \/ abs_delta_yw_to_hole_f10 > hole_radius_f10
        relined == IF far THEN set_hole_status(b, b.in_hole, FALSE) ELSE b
        slow == b.v_w_per_ms_f20 < BALL_HOLE_SLOW_F20
    IN IF b.in_hole
       THEN InHoleAnimation(b, delta_ms)
       ELSE IF far /\ (abs_delta_xw_to_hole_f10 - w_range_f10 > hole_radius_f10
                       \/ abs_delta_yw_to_hole_f10 - w_range_f10 > hole_radius_f10)
       THEN [b |-> relined, handled |-> FALSE]
       ELSE IF relined.ignore_hole_line \/ slow
       THEN [b |-> relined, handled |-> FALSE]
       ELSE HoleLineInteraction(relined, delta_ms, w_range_f10)

\* _maybe_advance_to_hole_interaction: the ball afterwards, and whether the
\* helper has handled the timestep.
maybe_advance_to_hole_interaction(b, delta_ms) ==
    LET a_f10 == BALL_COEFF_A * delta_ms
        abs_delta_xw_to_hole_f10 == Abs(b.xw_hole_f10 - b.xw_f10)
        abs_delta_yw_to_hole_f10 == Abs(b.yw_hole_f10 - b.yw_f10)
        hole_radius_f10 == BALL_HOLE_DIAMETER * (2 ^ 9)
        w_range_f10 == Shr(b.v_w_per_ms_f20 * delta_ms + 512, 10)
        far == abs_delta_xw_to_hole_f10 > hole_radius_f10
               \/ abs_delta_yw_to_hole_f10 > hole_radius_f10
        relined == IF far THEN set_hole_status(b, b.in_hole, FALSE) ELSE b
        slow == b.v_w_per_ms_f20 < BALL_HOLE_SLOW_F20
        dist_w_sq_to_hole_f20 ==
            abs_delta_xw_to_hole_f10 * abs_delta_xw_to_hole_f10
            + abs_delta_yw_to_hole_f10 * abs_delta_yw_to_hole_f10
    IN IF b.in_hole
       THEN InHoleAnimation(b, delta_ms)
       ELSE IF far /\ (abs_delta_xw_to_hole_f10 - w_range_f10 > hole_radius_f10
                       \/ abs_delta_yw_to_hole_f10 - w_range_f10 > hole_radius_f10)
       THEN [b |-> relined, handled |-> FALSE]
       ELSE IF ~far /\ slow /\ dist_w_sq_to_hole_f20 < BALL_HOLE_RADIUS_SQ_F20
       THEN [b |-> reset_is_stopped(set_hole_status(b, TRUE, b.ignore_hole_line)),
             handled |-> TRUE]
       ELSE IF relined.ignore_hole_line \/ slow
       THEN [b |-> relined, handled |-> FALSE]
       ELSE HoleLineInteraction(relined, delta_ms, w_range_f10)

\* A scan that sets out to advance the ball one row past the travel distance.
ScanStart_StepsPastFrame(mask_layer, delta_w, delta_w_f10) ==
    [count_grass |-> 0, count_sand |-> 0, count_water |-> 0,
     touch_grass |-> FALSE, touch_sand |-> FALSE, count_water_row |-> 0,
     signed_count_slope_x |-> 0, signed_count_slope_y |-> 0,
     signed_incr_slope_x |-> 0, signed_incr_slope_y |-> 0,
     m_i_chunk_scan_noncollide |-> 0 - 1,
     m_i_chunk_scan_collide0 |-> 0 - 1, m_i_chunk_scan_collide1 |-> 0 - 1,
     i_row_end_scan |-> BALL_DIAMETER + delta_w,
     w_to_step |-> delta_w + 1, w_to_step_f10 |-> delta_w_f10 + 1024,
     mask_layer |-> mask_layer]

\* The locals of _advance_to_collision_axis_aligned before its row loop.
ScanStart(mask_layer, delta_w, delta_w_f10) ==
    [count_grass |-> 0, count_sand |-> 0, count_water |-> 0,
     touch_grass |-> FALSE, touch_sand |-> FALSE, count_water_row |-> 0,
     signed_count_slope_x |-> 0, signed_count_slope_y |-> 0,
     signed_incr_slope_x |-> 0, signed_incr_slope_y |-> 0,
     m_i_chunk_scan_noncollide |-> 0 - 1,
     m_i_chunk_scan_collide0 |-> 0 - 1, m_i_chunk_scan_collide1 |-> 0 - 1,
     i_row_end_scan |-> BALL_DIAMETER + delta_w,
     w_to_step |-> delta_w, w_to_step_f10 |-> delta_w_f10,
     mask_layer |-> mask_layer]

\* The body of the loop over i_off for a cell that is no edge.
ScanNonWall(st, maybe_i_chunk) ==
    LET region == BitAnd(maybe_i_chunk, MGS_PAYLOAD_MASK_LOW)
        touched ==
            IF region = MGS_REGION_FAIRWAY THEN [st EXCEPT !.touch_grass = TRUE]
            ELSE IF region = MGS_REGION_WATER
            THEN [st EXCEPT !.count_water_row = @ + 1]
            ELSE IF region = MGS_REGION_SANDTRAP THEN [st EXCEPT !.touch_sand = TRUE]
            ELSE IF region = MGS_REGION_SLOPE_UP
            THEN [st EXCEPT !.signed_incr_slope_y = 0 - 1, !.touch_grass = TRUE]
            ELSE IF region = MGS_REGION_SLOPE_DOWN
            THEN [st EXCEPT !.signed_incr_slope_y = 1, !.touch_grass = TRUE]
            ELSE IF region = MGS_REGION_SLOPE_LEFT
            THEN [st EXCEPT !.signed_incr_slope_x = 0 - 1, !.touch_grass = TRUE]
            ELSE IF region = MGS_REGION_SLOPE_RIGHT
            THEN [st EXCEPT !.signed_incr_slope_x = 1, !.touch_grass = TRUE]
            ELSE st
        mask_trigger == Shr(maybe_i_chunk, MGS_PAYLOAD_SHIFT_MASK_TRIGGER)
    IN IF mask_trigger # 0 THEN [touched EXCEPT !.mask_layer = mask_trigger]
       ELSE touched

\* A scan that remembers the last edge the velocity does not oppose, not the
\* first.
ScanEdge_LastNoncollide(st, maybe_i_chunk, v_angle_wd, normals, i_row) ==
    IF velocity_hits_normal_wd(v_angle_wd, normals[maybe_i_chunk])
    THEN IF st.m_i_chunk_scan_collide0 < 0
         THEN IF i_row <= BALL_DIAMETER
              THEN [st EXCEPT !.m_i_chunk_scan_collide0 = maybe_i_chunk,
                              !.w_to_step = 0, !.w_to_step_f10 = 0,
                              !.i_row_end_scan = BALL_DIAMETER + BALL_RADIUS_FLOOR]
              ELSE [st EXCEPT !.m_i_chunk_scan_collide0 = maybe_i_chunk,
                              !.w_to_step = i_row - BALL_DIAMETER,
                              !.w_to_step_f10 = (i_row - BALL_DIAMETER) * 1024,
                              !.i_row_end_scan = i_row + BALL_RADIUS_FLOOR + 1]
         ELSE IF maybe_i_chunk # st.m_i_chunk_scan_collide0
                 /\ st.m_i_chunk_scan_collide1 < 0
         THEN [st EXCEPT !.m_i_chunk_scan_collide1 = maybe_i_chunk]
         ELSE st
    ELSE [st EXCEPT !.m_i_chunk_scan_noncollide = maybe_i_chunk]

\* The body of the loop over i_off for a cell that holds an edge.
ScanEdge(st, maybe_i_chunk, v_angle_wd, normals, i_row) ==
    IF velocity_hits_normal_wd(v_angle_wd, normals[maybe_i_chunk])
    THEN IF st.m_i_chunk_scan_collide0 < 0
         THEN IF i_row <= BALL_DIAMETER
              THEN [st EXCEPT !.m_i_chunk_scan_collide0 = maybe_i_chunk,
                              !.w_to_step = 0, !.w_to_step_f10 = 0,
                              !.i_row_end_scan = BALL_DIAMETER + BALL_RADIUS_FLOOR]
              ELSE [st EXCEPT !.m_i_chunk_scan_collide0 = maybe_i_chunk,
                              !.w_to_step = i_row - BALL_DIAMETER,
                              !.w_to_step_f10 = (i_row - BALL_DIAMETER) * 1024,
                              !.i_row_end_scan = i_row + BALL_RADIUS_FLOOR + 1]
         ELSE IF maybe_i_chunk # st.m_i_chunk_scan_collide0
                 /\ st.m_i_chunk_scan_collide1 < 0
         THEN [st EXCEPT !.m_i_chunk_scan_collide1 = maybe_i_chunk]
         ELSE st
    ELSE IF st.m_i_chunk_scan_noncollide < 0
         THEN [st EXCEPT !.m_i_chunk_scan_noncollide = maybe_i_chunk]
         ELSE st

\* The loop over i_off of row i_row, from cell i_off on.
RECURSIVE ScanRowCells(_, _, _, _, _, _)
ScanRowCells(st, pb, v_angle_wd, normals, i_row, i_off) ==
    IF i_off >= BALL_DIAMETER THEN st
    ELSE LET maybe_i_chunk == pb[i_row * BALL_DIAMETER + i_off]
         IN ScanRowCells(
                IF BitAnd(maybe_i_chunk, MGS_PAYLOAD_BIT_NON_WALL) # 0
                THEN ScanNonWall(st, maybe_i_chunk)
                ELSE ScanEdge(st, maybe_i_chunk, v_angle_wd, normals, i_row),
                pb, v_angle_wd, normals, i_row, i_off + 1)

\* The update of the region contact counts that ends the body of the row
\* loop.
ScanRowCounts(st, i_row) ==
    IF i_row >= BALL_DIAMETER - 1 /\ i_row - BALL_DIAMETER < st.w_to_step
    THEN [st EXCEPT
            !.count_grass = IF st.touch_grass THEN @ + 1 ELSE @,
            !.touch_grass = FALSE,
            !.count_sand = IF st.touch_sand THEN @ + 1 ELSE @,
            !.touch_sand = FALSE,
            !.count_water = IF st.count_water_row > BALL_RADIUS_FLOOR THEN @ + 1 ELSE @,
            !.count_water_row = 0,
            !.signed_count_slope_x = @ + st.signed_incr_slope_x,
            !.signed_count_slope_y = @ + st.signed_incr_slope_y,
            !.signed_incr_slope_x = 0,
            !.signed_incr_slope_y = 0]
    ELSE st

\* The row loop of _advance_to_collision_axis_aligned, from row i_row on.
RECURSIVE ScanRows(_, _, _, _, _)
ScanRows(st, pb, v_angle_wd, normals, i_row) ==
    IF i_row >= st.i_row_end_scan THEN st
    ELSE ScanRows(ScanRowCounts(ScanRowCells(st, pb, v_angle_wd, normals, i_row, 0),
                                i_row),
                  pb, v_angle_wd, normals, i_row + 1)

\* World distance travelled in delta_ms, as _advance_to_collision_axis_aligned
\* works it out before it sizes the payload buffer.
DeltaW_f10(b, delta_ms) == Shr(b.v_w_per_ms_f20 * delta_ms + 512, 10)
DeltaW(b, delta_ms) == Shr(DeltaW_f10(b, delta_ms) + 512, 10)

\* What _advance_to_collision_axis_aligned does once rasterize_payload has
\* returned with the payload buffer cells pb.
AdvanceAfterRasterize(b, delta_ms, pb, normals) ==
    LET delta_w == DeltaW(b, delta_ms)
        st == ScanRows(ScanStart(b.mask_layer, delta_w, DeltaW_f10(b, delta_ms)),
                       pb, b.v_angle_wd, normals, 0)
        maybe_i_chunk_contact0 == st.m_i_chunk_scan_collide0
        maybe_i_chunk_contact1 ==
            IF maybe_i_chunk_contact0 >= 0 /\ st.m_i_chunk_scan_collide1 < 0
            THEN st.m_i_chunk_scan_noncollide
            ELSE st.m_i_chunk_scan_collide1
        contacted == set_maybe_i_chunk_contact(b, maybe_i_chunk_contact0,
                                               maybe_i_chunk_contact1)
        stepped ==
            IF st.w_to_step_f10 > 0
            THEN set_location_f10(
                     contacted,
                     b.xw_f10 + Shr(cos_wd_f10(b.v_angle_wd) * st.w_to_step_f10 + 512, 10),
                     b.yw_f10 + Shr(sin_wd_f10(b.v_angle_wd) * st.w_to_step_f10 + 512, 10))
            ELSE contacted
        denom == delta_w + 1
        ms_grass == (delta_ms * st.count_grass) \div denom
        ms_sand == (delta_ms * st.count_sand) \div denom
        v_w_per_ms_f20 ==
            Max2(b.v_w_per_ms_f20 - BALL_COEFF_GRASS_F20 * ms_grass
                 - BALL_COEFF_SAND_F20 * ms_sand, 0)
        slowed == set_mask_layer(
                      set_velocity_wd_f20(stepped, b.v_angle_wd, v_w_per_ms_f20),
                      st.mask_layer)
        w_per_ms_f10 == Shr(v_w_per_ms_f20 + 512, 10)
        signed_ms_slope_x == (delta_ms * st.signed_count_slope_x) \div denom
        signed_ms_slope_y == (delta_ms * st.signed_count_slope_y) \div denom
        xw_per_ms_f10 ==
            Shr(cos_wd_f10(b.v_angle_wd) * w_per_ms_f10 + 512, 10)
            + Shr(signed_ms_slope_x * BALL_COEFF_SLOPE_F20 + 512, 10)
        yw_per_ms_f10 ==
            Shr(sin_wd_f10(b.v_angle_wd) * w_per_ms_f10 + 512, 10)
            + Shr(signed_ms_slope_y * BALL_COEFF_SLOPE_F20 + 512, 10)
        sloped ==
            IF st.signed_count_slope_x # 0 \/ st.signed_count_slope_y # 0
            THEN set_velocity_vector_f10(slowed, xw_per_ms_f10, yw_per_ms_f10)
            ELSE slowed
        sanded == set_on_sand(sloped, st.count_sand > 0)
    IN IF st.count_water = denom
       THEN set_water_status(sanded, b.water_ms + delta_ms)
       ELSE set_water_status(sanded, (delta_ms * st.count_water) \div denom)

maybe_resolve_collision(b, normals) ==
    LET normal0_wd == IF b.maybe_i_chunk_contact0 >= 0
                      THEN normals[b.maybe_i_chunk_contact0] ELSE 0
        normal1_wd == IF b.maybe_i_chunk_contact1 >= 0
                      THEN normals[b.maybe_i_chunk_contact1] ELSE 0
        is_collision0 == b.maybe_i_chunk_contact0 >= 0
                         /\ velocity_hits_normal_wd(b.v_angle_wd, normal0_wd)
        is_collision1 == b.maybe_i_chunk_contact1 >= 0
                         /\ velocity_hits_normal_wd(b.v_angle_wd, normal1_wd)
        v_w_per_ms_f20 == IF is_collision0 \/ is_collision1
                          THEN Max2(b.v_w_per_ms_f20 - BALL_SUBTR_WALL_F20, 0)
                          ELSE b.v_w_per_ms_f20
    IN IF is_collision0 /\ is_collision1
       THEN set_velocity_wd_f20(
                b,
                reflect_velocity_about_normal_wd(
                    b.v_angle_wd, get_endpoint_normal_wd(normal0_wd, normal1_wd)),
                v_w_per_ms_f20)
       ELSE IF is_collision0
       THEN set_velocity_wd_f20(
                b, reflect_velocity_about_normal_wd(b.v_angle_wd, normal0_wd),
                v_w_per_ms_f20)
       ELSE IF is_collision1
       THEN set_velocity_wd_f20(
                b, reflect_velocity_about_normal_wd(b.v_angle_wd, normal1_wd),
                v_w_per_ms_f20)
       ELSE b

\* A tracker that keeps the average and the time but marks no ball stopped.
update_stopped_tracking_NeverStops(b, delta_ms) ==
    LET a_f10 == BALL_COEFF_A * delta_ms
        xw_exp_avg_f10 ==
            Shr(a_f10 * b.xw_f10 + (1024 - a_f10) * b.xw_exp_avg_f10 + 512, 10)
        yw_exp_avg_f10 ==
            Shr(a_f10 * b.yw_f10 + (1024 - a_f10) * b.yw_exp_avg_f10 + 512, 10)
        near == Abs(b.xw_f10 - xw_exp_avg_f10) < BALL_DELTA_W_STOPPED_F10
                /\ Abs(b.yw_f10 - yw_exp_avg_f10) < BALL_DELTA_W_STOPPED_F10
    IN [b EXCEPT !.xw_exp_avg_f10 = xw_exp_avg_f10,
                 !.yw_exp_avg_f10 = yw_exp_avg_f10,
                 !.ms_below_stop_threshold = IF near THEN @ + delta_ms ELSE 0]

update_stopped_tracking(b, delta_ms) ==
    LET a_f10 == BALL_COEFF_A * delta_ms
        xw_exp_avg_f10 ==
            Shr(a_f10 * b.xw_f10 + (1024 - a_f10) * b.xw_exp_avg_f10 + 512, 10)
        yw_exp_avg_f10 ==
            Shr(a_f10 * b.yw_f10 + (1024 - a_f10) * b.yw_exp_avg_f10 + 512, 10)
        near == Abs(b.xw_f10 - xw_exp_avg_f10) < BALL_DELTA_W_STOPPED_F10
                /\ Abs(b.yw_f10 - yw_exp_avg_f10) < BALL_DELTA_W_STOPPED_F10
        ms_below_stop_threshold ==
            IF near THEN b.ms_below_stop_threshold + delta_ms ELSE 0
    IN [b EXCEPT !.xw_exp_avg_f10 = xw_exp_avg_f10,
                 !.yw_exp_avg_f10 = yw_exp_avg_f10,
                 !.ms_below_stop_threshold = ms_below_stop_threshold,
                 !.is_stopped = IF near /\ ms_below_stop_threshold > BALL_MS_BEFORE_STOPPED
                                THEN TRUE ELSE @]

\* The float width of the build: MicroPython on the device computes with
\* 32-bit floats, CPython with 64-bit floats.
FloatBits == {32, 64}

\* tan(k degrees) * 2^20 to the nearest integer, for k = 1 .. 89.
TanDegrees_f20 ==
  <<18303, 36617, 54954, 73324, 91739, 110210,
    128749, 147368, 166078, 184892, 203823, 222882,
    242083, 261439, 280965, 300674, 320582, 340703,
    361054, 381650, 402511, 423652, 445094, 466856,
    488959, 511425, 534276, 557538, 581235, 605396,
    630048, 655223, 680953, 707273, 734221, 761835,
    790159, 819237, 849120, 879860, 911513, 944142,
    977813, 1012598, 1048576, 1085832, 1124460, 1164562,
    1206249, 1249644, 1294884, 1342116, 1391507, 1443241,
    1497522, 1554578, 1614665, 1678072, 1745124, 1816187,
    1891681, 1972085, 2057946, 2149899, 2248678, 2355140,
    2470290, 2595317, 2731634, 2880939, 3045286, 3227185,
    3429738, 3656819, 3913339, 4205609, 4541882, 4933162,
    5394456, 5946770, 6620448, 7461006, 8539966, 9976534,
    11985279, 14995335, 20008022, 30027288, 60072879>>

\* int(math.atan2(y, x) * COEFF_RADIANS_TO_DEGREES) for y >= 0.  The
\* coefficient is a little under 180 / pi: at a nonzero multiple of 45
\* degrees the product falls just short of the integer with 64-bit floats
\* and is rounded onto it with 32-bit floats.
TruncatedDegrees(float_bits, x, y) ==
    IF x = 0 \/ y = 0 \/ Abs(x) = y
    THEN IF y = 0 /\ x >= 0 THEN 0
         ELSE LET theta == IF y = 0 THEN 180 ELSE IF x = 0 THEN 90
                           ELSE IF x > 0 THEN 45 ELSE 135
              IN IF float_bits = 32 THEN theta ELSE theta - 1
    ELSE IF x > 0
    THEN Cardinality({k \in 1 .. 89 : y * (2 ^ 20) >= x * TanDegrees_f20[k]})
    ELSE 179 - Cardinality({k \in 1 .. 89 : y * (2 ^ 20) > (0 - x) * TanDegrees_f20[k]})

normal_inward_wd(float_bits, x_b, y_b, x_e, y_e) ==
    LET dx == x_e - x_b
        dy == y_e - y_b
        degrees == IF dy >= 0 THEN TruncatedDegrees(float_bits, dx, dy)
                   ELSE 0 - TruncatedDegrees(float_bits, dx, 0 - dy)
    IN wd_init(degrees - 90)

\* The arr_chunk_normal_wd that _update_derived leaves for the freshly made
\* ChunkData cd: array('h', range(MAX_NUM_CHUNKS)) holds i at index i, and
\* the entries of the edge chunks are overwritten.
update_derived(cd, float_bits) ==
    [i_chunk \in 0 .. cd.num_chunks - 1 |->
        IF chunk_is_loop(cd.arr_chunk_data, cd.num_chunks, i_chunk) THEN i_chunk
        ELSE LET e == chunk_edge_get_endpoints(cd.arr_chunk_data, cd.num_chunks,
                                               i_chunk).ends
             IN normal_inward_wd(float_bits, e[1], e[2], e[3], e[4])]

(***************************************************************************)
(* SpecBall: one BallState on a level, with its collision rasterizer and   *)
(* payload buffer, called by a single thread.  The level is loaded, the    *)
(* hole and the ball are placed and the ball is struck before the first    *)
(* step; then come at most MaxBallCalls calls.  advance() is split where   *)
(* it hands over to rasterize_to_buffer, whose steps are those of the      *)
(* other specifications, and after each of its helpers.                    *)
(***************************************************************************)
MaxBallCalls == 3

PB_MAX_PIXELS == 1024

\* The level: a walled fairway from (-12, -8) to (12, 8) with an unwalled
\* pond from (-10, 2) to (10, 8).
BallChunkDatas ==
    <<load_level(BakeLoops(NewChunkData,
          <<TrLoop(<<<<0 - 12, 0 - 8>>, <<0 - 12, 8>>, <<12, 8>>, <<12, 0 - 8>>>>,
                   MGS_REGION_FAIRWAY, MGS_REGION_WALL, 1, 0),
            TrLoop(<<<<0 - 10, 2>>, <<0 - 10, 8>>, <<10, 8>>, <<10, 2>>>>,
                   MGS_REGION_WATER, MGS_REGION_EMPTY, 1, 0)>>, 1))>>

\* Where the hole is, in f10.
BallHole == <<0, 0 - 3072>>

\* The shots a behaviour starts with: location in f10, angle, speed in f20.
\* A putt that dies inside the hole's radius, a drive into the right wall, a
\* drive into the top right corner, a drive through the pond, a drive over
\* the hole, a drive along the top wall into the right wall, a drive out of
\* the bottom right corner the length of the pond into the left wall, a
\* slow roll down the fairway into the pond, a drive past the hole four
\* cells off its centre, a drive that meets the right wall in its second
\* frame.
BallShots ==
    {[xw_f10 |-> 0 - 5632, yw_f10 |-> 0 - 3072, angle_wd |-> 0, w_per_ms_f20 |-> 4000],
     [xw_f10 |-> 7168, yw_f10 |-> 0 - 3072, angle_wd |-> 0, w_per_ms_f20 |-> 30000],
     [xw_f10 |-> 9216, yw_f10 |-> 0 - 5120, angle_wd |-> 315, w_per_ms_f20 |-> 30000],
     [xw_f10 |-> 0 - 6144, yw_f10 |-> 5120, angle_wd |-> 0, w_per_ms_f20 |-> 20000],
     [xw_f10 |-> 0 - 8192, yw_f10 |-> 0 - 3072, angle_wd |-> 0, w_per_ms_f20 |-> 30000],
     [xw_f10 |-> 7168, yw_f10 |-> 0 - 6144, angle_wd |-> 0, w_per_ms_f20 |-> 30000],
     [xw_f10 |-> 11264, yw_f10 |-> 7168, angle_wd |-> 180, w_per_ms_f20 |-> 46000],
     [xw_f10 |-> 5120, yw_f10 |-> 0 - 2048, angle_wd |-> 90, w_per_ms_f20 |-> 8000],
     [xw_f10 |-> 0 - 3072, yw_f10 |-> 0 - 7168, angle_wd |-> 0, w_per_ms_f20 |-> 30000],
     [xw_f10 |-> 1024, yw_f10 |-> 0 - 1024, angle_wd |-> 0, w_per_ms_f20 |-> 28800]}

\* The timesteps a caller passes to advance().
BallDeltas == {300, 501}

\* The tee a caller puts the ball back on, and the putt and the drive it
\* strikes: angle and speed in f20.
BallTee == <<0 - 5632, 0 - 3072>>
BallPutt == <<0, 4000>>
BallDrive == <<0, 30000>>

InitBall ==
    /\ RlIdle /\ ChunkConstructed /\ SrConstructed /\ drv = DrvIdle
    /\ FillsZeroed
    /\ TrUncalled
    /\ payload_buffer = PayloadBufferConstructed
    /\ ball_call = NoBallCall
    /\ \E float_bits \in FloatBits :
          arr_chunk_normal_wd = update_derived(BallChunkDatas[1], float_bits)
    /\ \E shot \in BallShots :
          ball = reset_velocity_wd_f20(
                     reset_location_f10(
                         set_location_hole_f10(BallConstructed, BallHole[1], BallHole[2]),
                         shot.xw_f10, shot.yw_f10),
                     shot.angle_wd, shot.w_per_ms_f20)

\* An advance() that goes on past its test of is_stopped whatever it finds.
AdvanceReturnsAtOnce_Never(b) == FALSE

\* The test that opens advance(): do nothing if stopped.
AdvanceReturnsAtOnce(b) == b.is_stopped

BallMayCall ==
    ball_call.pc = "idle" /\ rz.pc = "idle" /\ ball_call.calls < MaxBallCalls

\* The calls that put a ball back into play.
BallResets == {"reset_location_f10", "reset_velocity_wd_f20", "move_to_last_shot"}

\* Ball b is more than one hole radius from the hole on either axis.
OutsideHoleNeighbourhood(b) ==
    \/ Abs(b.xw_hole_f10 - b.xw_f10) > BALL_HOLE_DIAMETER * (2 ^ 9)
    \/ Abs(b.yw_hole_f10 - b.yw_f10) > BALL_HOLE_DIAMETER * (2 ^ 9)

\* The record of a call that starts now.  pc = "track" on entry to advance()
\* says that the hole interaction has handled the timestep; for a ball that
\* is neither in the hole nor slow that is the handling of a hole-line
\* crossing.  crossed says that a crossing was handled in this frame or in
\* an earlier one since which no frame has started outside the hole's
\* neighbourhood.
BallCalled(op, pc, delta_ms, raised) ==
    [op |-> op, pc |-> pc, delta_ms |-> delta_ms, calls |-> ball_call.calls + 1,
     raised |-> raised, before |-> ball,
     near_ms |-> IF op \in BallResets THEN 0 ELSE ball_call.near_ms,
     tracked_ms |-> IF op \in BallResets THEN 0 ELSE ball_call.tracked_ms,
     crossed |->
         IF op # "advance" \/ ball.is_stopped THEN ball_call.crossed
         ELSE \/ (pc = "track" /\ ~ball.in_hole
                     /\ ball.v_w_per_ms_f20 >= BALL_HOLE_SLOW_F20)
              \/ (ball_call.crossed /\ ~OutsideHoleNeighbourhood(ball))]

\* The position of ball b is within the stop distance of its moving average.
NearAverage(b) ==
    /\ Abs(b.xw_f10 - b.xw_exp_avg_f10) < BALL_DELTA_W_STOPPED_F10
    /\ Abs(b.yw_f10 - b.yw_exp_avg_f10) < BALL_DELTA_W_STOPPED_F10

\* A call that touches the fields of the BallState only.
BallSetter(op, b) ==
    /\ BallMayCall
    /\ ball' = b
    /\ ball_call' = BallCalled(op, "idle", 0, FALSE)
    /\ UNCHANGED <<arr_chunk_normal_wd, payload_buffer, rlVars, chunkVars, srVars,
                   fillVars, trVars, askVars>>

BallUpdateLastShot == BallSetter("update_last_shot", update_last_shot(ball))

BallMoveToLastShot == BallSetter("move_to_last_shot", move_to_last_shot(ball))

BallResetLocation ==
    BallSetter("reset_location_f10", reset_location_f10(ball, BallTee[1], BallTee[2]))

BallResetVelocity ==
    \E strike \in {BallPutt, BallDrive} :
        BallSetter("reset_velocity_wd_f20",
                   reset_velocity_wd_f20(ball, strike[1], strike[2]))

BallSetLocationHole ==
    BallSetter("set_location_hole_f10",
               set_location_hole_f10(ball, BallHole[1], BallHole[2]))

\* advance() on a stopped ball.
BallAdvanceStopped ==
    /\ BallMayCall
    /\ AdvanceReturnsAtOnce(ball)
    /\ \E delta_ms \in BallDeltas :
          ball_call' = BallCalled("advance", "idle", delta_ms, FALSE)
    /\ UNCHANGED <<ball, arr_chunk_normal_wd, payload_buffer, rlVars, chunkVars,
                   srVars, fillVars, trVars, askVars>>

\* advance() whose timestep the hole interaction handles, up to the call of
\* _update_stopped_tracking.
BallAdvanceHole ==
    /\ BallMayCall
    /\ ~AdvanceReturnsAtOnce(ball)
    /\ \E delta_ms \in BallDeltas :
          LET h == maybe_advance_to_hole_interaction(ball, delta_ms)
          IN /\ h.handled
             /\ ball' = h.b
             /\ ball_call' = BallCalled("advance", "track", delta_ms, FALSE)
    /\ UNCHANGED <<arr_chunk_normal_wd, payload_buffer, rlVars, chunkVars, srVars,
                   fillVars, trVars, askVars>>

\* advance() whose timestep the hole interaction leaves alone, up to the
\* main loop of rasterize_to_buffer: set_dimensions, which raises when the
\* buffer would not hold the rows, the three setters and rasterize_payload.
BallAdvanceRasterize ==
    /\ BallMayCall
    /\ ~AdvanceReturnsAtOnce(ball)
    /\ \E delta_ms \in BallDeltas :
          LET h == maybe_advance_to_hole_interaction(ball, delta_ms)
              payload_dim_y == DeltaW(h.b, delta_ms) + 1 + 3 * BALL_RADIUS_FLOOR
              raises == BALL_DIAMETER * payload_dim_y > PB_MAX_PIXELS
              t == set_translate_map_world_to_screen_f10(
                       set_angle_wd(set_scale_f10(tr, 1024),
                                    wd_init(90 - h.b.v_angle_wd)),
                       h.b.xw_f10, h.b.yw_f10,
                       BALL_RADIUS_FLOOR * 1024, BALL_RADIUS_FLOOR * 1024)
              u == maybe_update_rasterizer_geometry(PoolWithCalls, t,
                                                    BallChunkDatas[tr.chunk_data])
          IN /\ ~h.handled
             /\ ball' = h.b
             /\ IF raises
                THEN /\ ball_call' = BallCalled("advance", "idle", delta_ms, TRUE)
                     /\ UNCHANGED <<payload_buffer, srVars, trVars>>
                ELSE /\ ball_call' = BallCalled("advance", "rasterize", delta_ms, FALSE)
                     /\ payload_buffer' = [width |-> BALL_DIAMETER,
                                           height |-> payload_dim_y]
                     /\ RasterizeBeginOn(u.pl, SR_BUFFER_TYPE_PAYLOAD, h.b.mask_layer,
                                         0 - u.t.translate_screen_x,
                                         0 - u.t.translate_screen_y,
                                         BALL_DIAMETER, payload_dim_y)
                     /\ sr_printed' = u.pl.printed
                     /\ sr_calls' = u.pl.calls
                     /\ tr' = u.t
                     /\ buf' = [i \in 0 .. BALL_DIAMETER * payload_dim_y - 1 |->
                                  BitOr(MGS_REGION_EMPTY, MGS_PAYLOAD_BIT_NON_WALL)]
                     /\ tr_op' = "rasterize_payload"
                     /\ tr_submitted' = t.update_rasterizer_geometry
                     /\ UNCHANGED tr_calls
    /\ UNCHANGED <<arr_chunk_normal_wd, drv, fillVars, rlVars, chunkVars, askVars>>

\* The rest of _advance_to_collision_axis_aligned once rasterize_payload has
\* returned.
BallAdvanceCollide ==
    /\ ball_call.pc = "rasterize"
    /\ rz.pc = "idle"
    /\ ball' = AdvanceAfterRasterize(ball, ball_call.delta_ms, buf, arr_chunk_normal_wd)
    /\ ball_call' = [ball_call EXCEPT !.pc = "resolve"]
    /\ UNCHANGED <<arr_chunk_normal_wd, payload_buffer, rlVars, chunkVars, srVars,
                   fillVars, trVars, askVars>>

BallAdvanceResolve ==
    /\ ball_call.pc = "resolve"
    /\ ball' = maybe_resolve_collision(ball, arr_chunk_normal_wd)
    /\ ball_call' = [ball_call EXCEPT !.pc = "track"]
    /\ UNCHANGED <<arr_chunk_normal_wd, payload_buffer, rlVars, chunkVars, srVars,
                   fillVars, trVars, askVars>>

\* _update_stopped_tracking, after which advance() returns.  The caller's
\* sums of the timesteps of the calls after each of which the ball was near
\* its average are brought up to date: near_ms over the calls since the last
\* reset, tracked_ms over the calls since the last reset or capture by the
\* hole.
BallAdvanceTrack ==
    /\ ball_call.pc = "track"
    /\ ball' = update_stopped_tracking(ball, ball_call.delta_ms)
    /\ ball_call' =
          [ball_call EXCEPT
             !.pc = "idle",
             !.near_ms = IF NearAverage(ball') THEN @ + ball_call.delta_ms ELSE 0,
             !.tracked_ms =
                 IF ~NearAverage(ball') THEN 0
                 ELSE IF ball.in_hole /\ ~ball_call.before.in_hole
                 THEN ball_call.delta_ms
                 ELSE @ + ball_call.delta_ms]
    /\ UNCHANGED <<arr_chunk_normal_wd, payload_buffer, rlVars, chunkVars, srVars,
                   fillVars, trVars, askVars>>

NextBall ==
    \/ BallUpdateLastShot
    \/ BallMoveToLastShot
    \/ BallResetLocation
    \/ BallResetVelocity
    \/ BallSetLocationHole
    \/ BallAdvanceStopped
    \/ BallAdvanceHole
    \/ BallAdvanceRasterize
    \/ RasterScanlineBegin
    \/ RasterScanRl
    \/ RasterScanlineEnd
    \/ RasterReturn
    \/ BallAdvanceCollide
    \/ BallAdvanceResolve
    \/ BallAdvanceTrack

SpecBall == InitBall /\ [][NextBall]_vars

(***************************************************************************)
(* Claims about the BallState, checked under SpecBall.                     *)
(***************************************************************************)
\* The step is the first step of a call of advance().
AdvanceCalled == ball_call'.op = "advance" /\ ball_call'.calls = ball_call.calls + 1

\* C13: advance() on a stopped ball returns at once: no field of the
\* BallState changes, and neither the collision rasterizer (its transform,
\* its RLs, its counters) nor the payload buffer (its dimensions, its cells)
\* is touched.  The ball goes from stopped to not stopped only in a step of
\* reset_location_f10, reset_velocity_wd_f20 or move_to_last_shot.
C13_StoppedStaysStopped ==
    [][/\ (ball.is_stopped /\ AdvanceCalled
              => /\ UNCHANGED <<ball, payload_buffer, srVars, trVars>>
                 /\ ball_call'.pc = "idle")
       /\ (ball.is_stopped /\ ~ball'.is_stopped
              => ball_call'.op \in BallResets /\ ball_call'.calls = ball_call.calls + 1)
      ]_vars

\* advance() has returned from a call on a stopped ball, and a later reset
\* has put the ball back into play.
C13_Witness ==
    /\ ball_call.op \in BallResets
    /\ ball_call.before.is_stopped
    /\ ball_call.calls = MaxBallCalls
    /\ ~ball.is_stopped

\* An advance() made on a ball that was not stopped has returned.
AdvanceRan ==
    /\ ball_call.op = "advance" /\ ball_call.pc = "idle"
    /\ ~ball_call.before.is_stopped /\ ~ball_call.raised

\* The ball has sunk: _set_water_status found it in water for longer than
\* BALL_MS_BEFORE_SINK.
Sunk(b) == b.in_water /\ b.water_ms > BALL_MS_BEFORE_SINK

\* C14 as stated: over consecutive advance() calls after each of which the
\* ball is near its average, is_stopped is true once their timesteps add up
\* to more than BALL_MS_BEFORE_STOPPED; a call after which the ball is not
\* near its average zeroes the accumulated time and leaves is_stopped false.
C14_NearLongEnoughStops ==
    AdvanceRan =>
        /\ (ball_call.near_ms > BALL_MS_BEFORE_STOPPED => ball.is_stopped)
        /\ (~NearAverage(ball) => ball.ms_below_stop_threshold = 0 /\ ~ball.is_stopped)

\* C14, amended: the time accumulates from the last reset or capture by the
\* hole, and is what ms_below_stop_threshold holds; once it is more than
\* BALL_MS_BEFORE_STOPPED is_stopped is true; a call after which the ball is
\* not near its average zeroes it; and a ball is stopped by an advance() only
\* when the time has run out or the ball has sunk.
C14_TrackerStopsOrBallSinks ==
    AdvanceRan =>
        /\ ball.ms_below_stop_threshold = ball_call.tracked_ms
        /\ (ball_call.tracked_ms > BALL_MS_BEFORE_STOPPED => ball.is_stopped)
        /\ (~NearAverage(ball) => ball.ms_below_stop_threshold = 0)
        /\ (ball.is_stopped =>
              ball_call.tracked_ms > BALL_MS_BEFORE_STOPPED \/ Sunk(ball))

\* Two advance() calls in a row have left the ball near its average, and the
\* second has stopped it.
C14_Witness ==
    /\ AdvanceRan
    /\ ball_call.tracked_ms = 2 * 300
    /\ ball.is_stopped /\ ~Sunk(ball)

\* The squared distance of ball b to the hole is below the capture radius
\* squared, and the ball rolls slower than the slow-roll threshold.
InCaptureRadius(b) ==
    (b.xw_hole_f10 - b.xw_f10) * (b.xw_hole_f10 - b.xw_f10)
    + (b.yw_hole_f10 - b.yw_f10) * (b.yw_hole_f10 - b.yw_f10) < BALL_HOLE_RADIUS_SQ_F20
SlowRoll(b) == b.v_w_per_ms_f20 < BALL_HOLE_SLOW_F20

\* C15 as stated: whenever advance() has returned from a call on a ball that
\* was inside the capture radius and slower than the slow-roll threshold,
\* in_hole is true.
C15_SlowBallInRadiusIsHoled ==
    /\ ball_call.op = "advance" /\ ball_call.pc = "idle" /\ ~ball_call.raised
    /\ InCaptureRadius(ball_call.before) /\ SlowRoll(ball_call.before)
    => ball.in_hole

\* C15, amended: whenever advance() has returned from a call on a ball that
\* was not stopped, was inside the capture radius and was slower than the
\* slow-roll threshold, in_hole is true.
C15_SlowRollingBallInRadiusIsHoled ==
    AdvanceRan /\ InCaptureRadius(ball_call.before) /\ SlowRoll(ball_call.before)
    => ball.in_hole

\* A slow ball inside the radius and not yet in the hole has been captured
\* by one advance().
C15_Witness ==
    /\ AdvanceRan
    /\ InCaptureRadius(ball_call.before) /\ SlowRoll(ball_call.before)
    /\ ~ball_call.before.in_hole
    /\ ball.in_hole

\* Contact edge number k of the ball (0 or 1), or -1.
ContactEdge(k) ==
    IF k = 0 THEN ball.maybe_i_chunk_contact0 ELSE ball.maybe_i_chunk_contact1

\* The ball has contact edge k and its velocity opposes the edge's normal:
\* the two angles are more than 90 degrees apart either way round.
Opposes(k) ==
    /\ ContactEdge(k) >= 0
    /\ LET apart == (ball.v_angle_wd - arr_chunk_normal_wd[ContactEdge(k)]) % 360
       IN apart > 90 /\ apart < 270

\* C16: in the step that resolves the collision, if the velocity opposes the
\* normal of exactly one of the contact edges, the new angle is
\* (2 * normal - old angle - 180) mod 360 and the speed drops by
\* BALL_SUBTR_WALL_F20, not below zero; if it opposes none, angle and speed
\* stay as they are.
C16_OneOpposedEdgeReflects ==
    [][ball_call.pc = "resolve" =>
         /\ \A k \in {0, 1} :
               Opposes(k) /\ ~Opposes(1 - k) =>
                 /\ ball'.v_angle_wd =
                       (2 * arr_chunk_normal_wd[ContactEdge(k)] - ball.v_angle_wd - 180) % 360
                 /\ ball'.v_w_per_ms_f20 =
                       Max2(ball.v_w_per_ms_f20 - BALL_SUBTR_WALL_F20, 0)
         /\ (~Opposes(0) /\ ~Opposes(1) =>
               /\ ball'.v_angle_wd = ball.v_angle_wd
               /\ ball'.v_w_per_ms_f20 = ball.v_w_per_ms_f20)
      ]_vars

\* The drive at angle 0 has met the right wall alone, whose normal is 180,
\* and has come away at angle 180 with less than BALL_SUBTR_WALL_F20 taken
\* off a speed of 30000 by friction first.
C16_Witness ==
    /\ ball_call.op = "advance" /\ ball_call.pc = "track"
    /\ ball_call.before.v_angle_wd = 0
    /\ ball.maybe_i_chunk_contact0 >= 0 /\ ball.maybe_i_chunk_contact1 < 0
    /\ arr_chunk_normal_wd[ball.maybe_i_chunk_contact0] = 180
    /\ ball.v_angle_wd = 180
    /\ ball.v_w_per_ms_f20 > 0
    /\ ball.v_w_per_ms_f20 < 30000 - BALL_SUBTR_WALL_F20

(***************************************************************************)
(* SpecEndpoint: a ball in the middle of advance(), about to resolve its   *)
(* contacts with the first two edges of a loop, chunks 1 and 2, whose      *)
(* normals are any two wrapped angles, and whose velocity meets the edge   *)
(* of chunk 1 head on.  Only what _maybe_resolve_collision reads is set    *)
(* up; the rasterizer is left as constructed.                              *)
(***************************************************************************)
InitEndpoint ==
    /\ RlIdle /\ ChunkConstructed /\ SrConstructed /\ drv = DrvIdle
    /\ FillsZeroed
    /\ TrUncalled
    /\ payload_buffer = PayloadBufferConstructed
    /\ \E normal0_wd \in 0 .. 359, normal1_wd \in 0 .. 359 :
          LET b == set_maybe_i_chunk_contact(
                       set_velocity_wd_f20(BallConstructed, normal0_wd + 180, 30000),
                       1, 2)
          IN /\ arr_chunk_normal_wd =
                   [i_chunk \in 0 .. 2 |->
                      IF i_chunk = 1 THEN normal0_wd
                      ELSE IF i_chunk = 2 THEN normal1_wd ELSE i_chunk]
             /\ ball = b
             /\ ball_call = [NoBallCall EXCEPT !.op = "advance", !.pc = "resolve",
                                               !.delta_ms = 300, !.calls = 1,
                                               !.before = b]

NextEndpoint == BallAdvanceResolve

SpecEndpoint == InitEndpoint /\ [][NextEndpoint]_vars

\* The angle between two wrapped angles, the short way round.
AngularDistance(a_wd, b_wd) == Min2((a_wd - b_wd) % 360, (b_wd - a_wd) % 360)

\* The endpoint normal of r's two normals lies in [0, 360) and bisects the
\* shorter arc between them.
BisectsShorterArc(normal0_wd, normal1_wd) ==
    LET n == get_endpoint_normal_wd(normal0_wd, normal1_wd)
        d0 == AngularDistance(n, normal0_wd)
        d1 == AngularDistance(n, normal1_wd)
    IN /\ n \in 0 .. 359
       /\ d0 <= 90 /\ d1 <= 90
       /\ Abs(d0 - d1) <= 1

\* _maybe_resolve_collision has just run on a ball whose velocity opposed the
\* normals of both contact edges.
ResolvedBothCollisions ==
    /\ ball_call.pc = "track"
    /\ velocity_hits_normal_wd(ball_call.before.v_angle_wd, arr_chunk_normal_wd[1])
    /\ velocity_hits_normal_wd(ball_call.before.v_angle_wd, arr_chunk_normal_wd[2])

\* The velocity after _maybe_resolve_collision is the velocity before it
\* reflected about the endpoint normal.
ReflectedAboutEndpointNormal ==
    ball.v_angle_wd =
        (2 * get_endpoint_normal_wd(arr_chunk_normal_wd[1], arr_chunk_normal_wd[2])
         - ball_call.before.v_angle_wd - 180) % 360

\* C21 as stated: for all normals n0, n1 in [0, 360) the endpoint normal is
\* in [0, 360), bisects the shorter arc between n0 and n1 (at most 90
\* degrees from either, the two distances at most 1 apart) and is the same
\* for either argument order; a velocity that opposes both contact edges is
\* reflected about it.
C21_EndpointNormalBisectsEitherOrder ==
    LET normal0_wd == arr_chunk_normal_wd[1]
        normal1_wd == arr_chunk_normal_wd[2]
    IN /\ BisectsShorterArc(normal0_wd, normal1_wd)
       /\ get_endpoint_normal_wd(normal0_wd, normal1_wd)
             = get_endpoint_normal_wd(normal1_wd, normal0_wd)
       /\ (ResolvedBothCollisions => ReflectedAboutEndpointNormal)

\* C21, amended: the endpoint normal is in [0, 360) and bisects the shorter
\* arc; it is the same for either argument order unless n0 and n1 are
\* exactly opposite, when the two orders give the two opposite angles at 90
\* degrees from both; a velocity that opposes both contact edges, which
\* opposite normals never allow, is reflected about it.
C21_EndpointNormalBisects ==
    LET normal0_wd == arr_chunk_normal_wd[1]
        normal1_wd == arr_chunk_normal_wd[2]
        n == get_endpoint_normal_wd(normal0_wd, normal1_wd)
        n_swapped == get_endpoint_normal_wd(normal1_wd, normal0_wd)
    IN /\ BisectsShorterArc(normal0_wd, normal1_wd)
       /\ IF AngularDistance(normal0_wd, normal1_wd) = 180
          THEN /\ n_swapped = (n + 180) % 360
               /\ ~ResolvedBothCollisions
          ELSE n_swapped = n
       /\ (ResolvedBothCollisions => ReflectedAboutEndpointNormal)

\* A ball that met the edges with normals 350 and 60 at an angle of 170 has
\* been reflected about the endpoint normal 25, which lies across the zero
\* of the wrapped angles from normal 350, and leaves at an angle of 60.
C21_Witness ==
    /\ ResolvedBothCollisions
    /\ arr_chunk_normal_wd[1] = 350 /\ arr_chunk_normal_wd[2] = 60
    /\ ball_call.before.v_angle_wd = 170
    /\ get_endpoint_normal_wd(350, 60) = 25
    /\ ball.v_angle_wd = 60

(***************************************************************************)
(* The collision scan, read off the payload buffer it scanned.             *)
(***************************************************************************)
\* _advance_to_collision_axis_aligned has just returned and
\* _maybe_resolve_collision has not yet run.
AfterScan == ball_call.op = "advance" /\ ball_call.pc = "resolve"

\* Cell i of the payload buffer holds a wall edge; the velocity the scan was
\* made with opposes that edge's normal.
IsEdgeCell(i) == BitAnd(buf[i], MGS_PAYLOAD_BIT_NON_WALL) = 0
OpposedCell(i) ==
    /\ IsEdgeCell(i)
    /\ LET apart == (ball_call.before.v_angle_wd - arr_chunk_normal_wd[buf[i]]) % 360
       IN apart > 90 /\ apart < 270

\* The frame's travel distance in whole cells, and the cells of the rows the
\* scan sets out to read: the starting footprint and delta_w rows more.
FrameDeltaW ==
    Shr(Shr(ball_call.before.v_w_per_ms_f20 * ball_call.delta_ms + 512, 10) + 512, 10)
FrameCells == 0 .. BALL_DIAMETER * (BALL_DIAMETER + FrameDeltaW) - 1

\* The first cell in scan order with an edge the velocity opposes, and the
\* row past the last the scan reads: BALL_RADIUS_FLOOR rows past that edge,
\* or past the row after the starting footprint if the edge comes before it.
OpposedCells == {i \in FrameCells : OpposedCell(i)}
FirstOpposedRow == SetMin(OpposedCells) \div BALL_DIAMETER
RowEndScan ==
    IF OpposedCells = {} THEN BALL_DIAMETER + FrameDeltaW
    ELSE IF FirstOpposedRow <= BALL_DIAMETER THEN BALL_DIAMETER + BALL_RADIUS_FLOOR
    ELSE FirstOpposedRow + BALL_RADIUS_FLOOR + 1
ScannedCells == 0 .. BALL_DIAMETER * RowEndScan - 1

\* What the scan met besides the first opposed edge: cells of other opposed
\* edges, and cells of edges the velocity does not oppose.
FirstOpposedEdge == buf[SetMin(OpposedCells)]
OtherOpposedCells ==
    {i \in ScannedCells : OpposedCell(i) /\ buf[i] # FirstOpposedEdge}
UnopposedCells == {i \in ScannedCells : IsEdgeCell(i) /\ ~OpposedCell(i)}

\* C22 as stated: after the scan contact slot 0 holds the first edge in scan
\* order whose normal opposes the velocity, or -1; slot 1 holds the next
\* distinct such edge if the scan found one, and otherwise, when slot 0 is
\* set, the edge touched last among the others, or -1 if there is none.
C22_SecondSlotMostRecentEdge ==
    AfterScan =>
        IF OpposedCells = {}
        THEN ball.maybe_i_chunk_contact0 = 0 - 1
        ELSE /\ ball.maybe_i_chunk_contact0 = FirstOpposedEdge
             /\ ball.maybe_i_chunk_contact1 =
                   IF OtherOpposedCells # {} THEN buf[SetMin(OtherOpposedCells)]
                   ELSE IF UnopposedCells # {} THEN buf[SetMax(UnopposedCells)]
                   ELSE 0 - 1

\* C22, amended: after the scan contact slot 0 holds the first edge in scan
\* order whose normal opposes the velocity, or -1, and then slot 1 is -1
\* too; slot 1 holds the next distinct such edge if the scan found one, and
\* otherwise, when slot 0 is set, the first edge in scan order whose normal
\* does not oppose the velocity, or -1 if there is none.
C22_SecondSlotFirstUnopposedEdge ==
    AfterScan =>
        IF OpposedCells = {}
        THEN /\ ball.maybe_i_chunk_contact0 = 0 - 1
             /\ ball.maybe_i_chunk_contact1 = 0 - 1
        ELSE /\ ball.maybe_i_chunk_contact0 = FirstOpposedEdge
             /\ ball.maybe_i_chunk_contact1 =
                   IF OtherOpposedCells # {} THEN buf[SetMin(OtherOpposedCells)]
                   ELSE IF UnopposedCells # {} THEN buf[SetMin(UnopposedCells)]
                   ELSE 0 - 1

\* The drive out of the corner has met the wall behind it (edge 3), then the
\* wall beside it (edge 2) row after row, then the wall ahead (edge 1),
\* which alone opposes it: slot 0 holds edge 1 and slot 1 edge 3.
C22_Witness ==
    /\ AfterScan
    /\ OpposedCells # {} /\ OtherOpposedCells = {} /\ UnopposedCells # {}
    /\ buf[SetMin(UnopposedCells)] # buf[SetMax(UnopposedCells)]
    /\ ball.maybe_i_chunk_contact0 = 1
    /\ ball.maybe_i_chunk_contact1 = 3
\* The rows the ball advances by in the frame: the travel distance, or as far
\* as the first opposed edge lets it go.
StepRows ==
    IF OpposedCells = {} THEN FrameDeltaW
    ELSE IF FirstOpposedRow <= BALL_DIAMETER THEN 0
    ELSE FirstOpposedRow - BALL_DIAMETER

\* The rows of footprint bucket k: the starting footprint for k = 0, and
\* then the k-th row past it; and the water cells among them.
BucketRows(k) == IF k = 0 THEN 0 .. BALL_DIAMETER - 1 ELSE {BALL_DIAMETER - 1 + k}
BucketWaterCells(k) ==
    {i \in 0 .. BALL_DIAMETER * (BALL_DIAMETER + FrameDeltaW) - 1 :
        /\ i \div BALL_DIAMETER \in BucketRows(k)
        /\ BitAnd(buf[i], MGS_PAYLOAD_BIT_NON_WALL) # 0
        /\ buf[i] % MGS_PAYLOAD_BIT_NON_WALL = MGS_REGION_WATER}

\* The buckets of the frame in water: those the ball gets to with more than
\* BALL_RADIUS_FLOOR of their cells water.
WaterBuckets ==
    {k \in 0 .. StepRows : Cardinality(BucketWaterCells(k)) > BALL_RADIUS_FLOOR}

\* C23: after the scan of a frame water_ms is what it was plus delta_ms if
\* all delta_w + 1 buckets of the frame are in water, and otherwise the
\* share of delta_ms that the buckets in water make up; in every state, a
\* ball whose water_ms is over BALL_MS_BEFORE_SINK is in_water and stopped,
\* a ball is in_water only with such a water_ms, and in_water implies
\* is_stopped.
C23_WaterTimeSinksBall ==
    /\ AfterScan =>
          ball.water_ms =
             IF Cardinality(WaterBuckets) = FrameDeltaW + 1
             THEN ball_call.before.water_ms + ball_call.delta_ms
             ELSE (ball_call.delta_ms * Cardinality(WaterBuckets)) \div (FrameDeltaW + 1)
    /\ (ball.water_ms > BALL_MS_BEFORE_SINK => ball.in_water /\ ball.is_stopped)
    /\ (ball.in_water => ball.water_ms > BALL_MS_BEFORE_SINK /\ ball.is_stopped)

\* The roll into the pond spent a third of its first frame in water, which
\* left water_ms at BALL_MS_BEFORE_SINK and the ball afloat; its second
\* frame was all water, water_ms grew by delta_ms and the ball sank.
C23_Witness ==
    /\ AfterScan
    /\ ball_call.before.water_ms = BALL_MS_BEFORE_SINK
    /\ ~ball_call.before.in_water
    /\ Cardinality(WaterBuckets) = FrameDeltaW + 1
    /\ ball.water_ms = BALL_MS_BEFORE_SINK + ball_call.delta_ms
    /\ ball.in_water /\ ball.is_stopped
(***************************************************************************)
(* The hole line.                                                          *)
(***************************************************************************)
\* The step starts a frame: advance() is called on a ball that is not
\* stopped.
FrameStarts == AdvanceCalled /\ ~ball.is_stopped

\* The step starts a frame that is handled as a hole-line crossing: the hole
\* interaction takes the timestep of a ball that is neither in the hole,
\* which would draw it to the centre, nor slow, which would let it roll in.
CrossingHandled ==
    /\ FrameStarts
    /\ ball_call'.pc = "track"
    /\ ~ball.in_hole
    /\ ball.v_w_per_ms_f20 >= BALL_HOLE_SLOW_F20

\* What a handled crossing and a frame that starts outside the hole's
\* neighbourhood do to ignore_hole_line.
CrossingSetsIgnore ==
    /\ (CrossingHandled => ball'.ignore_hole_line)
    /\ (FrameStarts /\ OutsideHoleNeighbourhood(ball) /\ ~CrossingHandled
          => ~ball'.ignore_hole_line)

\* C24 as stated: a handled crossing sets ignore_hole_line, and from then on
\* no frame is handled as a crossing until a frame that the ball starts
\* outside the hole's neighbourhood, which clears ignore_hole_line.
C24_NoCrossingUntilOutside ==
    [][/\ CrossingSetsIgnore
       /\ (FrameStarts /\ ball_call.crossed /\ ~OutsideHoleNeighbourhood(ball)
             => ~CrossingHandled)
      ]_vars

\* C24, amended: a handled crossing sets ignore_hole_line; while it is set
\* no frame that the ball starts inside the hole's neighbourhood is handled
\* as a crossing; and it is cleared only by a frame that the ball starts
\* outside the neighbourhood or by a call of reset_location_f10,
\* reset_velocity_wd_f20, move_to_last_shot or set_location_hole_f10.
C24_NoCrossingWhileIgnored ==
    [][/\ CrossingSetsIgnore
       /\ (FrameStarts /\ ball.ignore_hole_line /\ ~OutsideHoleNeighbourhood(ball)
             => ~CrossingHandled)
       /\ (ball.ignore_hole_line /\ ~ball'.ignore_hole_line
             => \/ FrameStarts /\ OutsideHoleNeighbourhood(ball)
                \/ /\ ball_call'.calls = ball_call.calls + 1
                   /\ ball_call'.op \in BallResets \union {"set_location_hole_f10"})
      ]_vars

\* After a crossing handled in an earlier frame, a frame of a fast ball that
\* started inside the neighbourhood has gone on to the collision scan.
C24_Witness ==
    /\ AfterScan
    /\ ball_call.crossed
    /\ ball_call.before.ignore_hole_line
    /\ ~OutsideHoleNeighbourhood(ball_call.before)
    /\ ~ball_call.before.in_hole
    /\ ball_call.before.v_w_per_ms_f20 >= BALL_HOLE_SLOW_F20
(***************************************************************************)
(* The stop tracker under shots, teleports and bounces.                    *)
(***************************************************************************)
\* The step is a call of reset_velocity_wd_f20 or of reset_location_f10.
ShotOrTeleport ==
    /\ ball_call'.calls = ball_call.calls + 1
    /\ ball_call'.op \in {"reset_velocity_wd_f20", "reset_location_f10"}

\* The step is _maybe_resolve_collision turning the ball at a wall.
BounceResolved == ball_call.pc = "resolve" /\ (Opposes(0) \/ Opposes(1))

\* C25 as stated: a fresh shot, a teleport and a resolved wall bounce each
\* leave the accumulated below-threshold time at 0 and the moving average
\* off the ball's position.
C25_ShotTeleportBounceResetTracker ==
    [][ShotOrTeleport \/ BounceResolved =>
         /\ ball'.ms_below_stop_threshold = 0
         /\ <<ball'.xw_exp_avg_f10, ball'.yw_exp_avg_f10>>
               # <<ball'.xw_f10, ball'.yw_f10>>
      ]_vars

\* What the code does: a fresh shot and a teleport zero the time and restart
\* the average on the ball's position; a resolved bounce leaves the tracker
\* as it finds it.
C25_ShotAndTeleportRestartOnBall ==
    [][/\ (ShotOrTeleport =>
              /\ ball'.ms_below_stop_threshold = 0
              /\ ball'.xw_exp_avg_f10 = ball'.xw_f10
              /\ ball'.yw_exp_avg_f10 = ball'.yw_f10)
       /\ (BounceResolved =>
              UNCHANGED <<ball.ms_below_stop_threshold, ball.xw_exp_avg_f10,
                          ball.yw_exp_avg_f10, ball.is_stopped>>)
      ]_vars

\* A ball that enters a frame with time on its tracker and is turned round
\* by a wall in that frame leaves advance() with the frame's time added to
\* what the tracker already held.
C25_BounceKeepsTrackerTime ==
    /\ ball_call.op = "advance" /\ ball_call.pc = "idle"
    /\ ball_call.before.ms_below_stop_threshold > 0
    /\ ball.maybe_i_chunk_contact0 >= 0
    /\ ball.v_angle_wd # ball_call.before.v_angle_wd
    /\ ball.ms_below_stop_threshold
          = ball_call.before.ms_below_stop_threshold + ball_call.delta_ms
(***************************************************************************)
(* SpecRedraw: a caller submits the edges of one scene once, each edge     *)
(* with a line payload of its own as _set_rasterizer_geometry gives it,    *)
(* and then calls rasterize_to_buffer MaxRedraws times on a cleared        *)
(* buffer, with any window and buffer type each time, never clearing or    *)
(* resubmitting the edges.  It keeps the picture of the first call.        *)
(***************************************************************************)
MaxRedraws == 3

DiamondCCW == <<<<0, 4>>, <<4, 8>>, <<8, 4>>, <<4, 0>>>>

RedrawScenes ==
    << <<Loop(DiamondCCW, 2, 0, 1)>>,
       <<Loop(SquareCCW, 2, 0, 1)>>,
       <<Loop(SmallSquareCCW(0, 0), 3, 8, 1), Loop(TriangleCCW, 5, 0, 1)>> >>

RedrawWindows ==
    {[x_first |-> 0 - 1, y_first |-> 0 - 1, x_dim |-> 11, y_dim |-> 11],
     [x_first |-> 2, y_first |-> 3, x_dim |-> 6, y_dim |-> 5]}

\* The edges of a scene in submission order, edge k with line payload 100 + k.
RedrawEdges(scene) ==
    LET edges == SceneEdgesFrom(RedrawScenes[scene], 1, FALSE)
    IN [k \in 1 .. Len(edges) |-> [edges[k] EXCEPT !.payload_line = 100 + k]]

\* The arguments of the rasterize_to_buffer call in progress or last made.
RzArgs ==
    [buffer_type |-> rz.buffer_type, mask_layer |-> rz.mask_layer,
     x_first |-> rz.x_first, y_first |-> rz.y_first, x_dim |-> rz.x_dim,
     y_dim |-> rz.y_dim]

InitRedraw ==
    /\ RlIdle /\ ChunkConstructed /\ SrConstructed /\ SolidFills /\ TrIdle
    /\ \E sc \in 1 .. Len(RedrawScenes) :
          drv = [scene |-> sc, pass |-> 0, k |-> 0, op |-> "none",
                 e |-> Edge(0, 0, 0, 0, 8, 8, 0), first |-> buf, args |-> RzArgs]

RedrawSubmit ==
    /\ rz.pc = "idle"
    /\ drv.op \in {"none", "add"}
    /\ drv.k < Len(RedrawEdges(drv.scene))
    /\ LET e == RedrawEdges(drv.scene)[drv.k + 1]
       IN /\ add_edge_line_fill(e)
          /\ drv' = [drv EXCEPT !.k = drv.k + 1, !.op = "add", !.e = e]
    /\ UNCHANGED <<scanVars, notSr>>

\* The caller clears its buffer and calls rasterize_to_buffer on the
\* rasterizer as the call before left it; before its second call it puts
\* the first picture and the arguments that gave it aside.
RedrawDraw ==
    /\ rz.pc = "idle"
    /\ drv.k = Len(RedrawEdges(drv.scene))
    /\ drv.pass < MaxRedraws
    /\ \E w \in RedrawWindows, buffer_type \in {SR_BUFFER_TYPE_DISPLAY, SR_BUFFER_TYPE_PAYLOAD} :
          /\ RasterizeBegin(buffer_type, 1, w.x_first, w.y_first, w.x_dim, w.y_dim)
          /\ buf' = [i \in 0 .. w.x_dim * w.y_dim - 1 |-> 0]
    /\ drv' = [drv EXCEPT !.op = "draw", !.pass = @ + 1,
                          !.first = IF drv.pass = 1 THEN buf ELSE @,
                          !.args = IF drv.pass = 1 THEN RzArgs ELSE @]
    /\ UNCHANGED notSr

NextRedraw ==
    \/ RedrawSubmit
    \/ RedrawDraw
    \/ RasterScanlineBegin
    \/ RasterScanRl
    \/ RasterScanlineEnd
    \/ RasterReturn

SpecRedraw == InitRedraw /\ [][NextRedraw]_vars

\* A call after the first has returned, made with the arguments of the first.
RedrawnAsFirst ==
    rz.pc = "idle" /\ drv.op = "draw" /\ drv.pass >= 2 /\ RzArgs = drv.args

\* The region a cell of a payload picture of the scene shows: a fill
\* payload is 200 + region, a line payload 100 + k names edge k.
CellRegion(scene, v) ==
    IF v = 0 THEN RL_REGION_UNUSED
    ELSE IF v >= 200 THEN v - 200
    ELSE RedrawEdges(scene)[v - 100].region_line

\* C26 as stated: a call made with the arguments of the first call, whatever
\* calls came between, gives the picture the first call gave.
C26_RedrawGivesSamePicture == RedrawnAsFirst => buf = drv.first

\* C26: such a call gives the same display picture, and a payload picture
\* that shows the same region in every cell and differs from the first only
\* in which edge of that region a line cell names.
C26_RedrawGivesSameRegions ==
    RedrawnAsFirst =>
       /\ DOMAIN buf = DOMAIN drv.first
       /\ rz.buffer_type = SR_BUFFER_TYPE_DISPLAY => buf = drv.first
       /\ \A i \in DOMAIN buf :
             \/ buf[i] = drv.first[i]
             \/ /\ buf[i] \in 101 .. 199 /\ drv.first[i] \in 101 .. 199
                /\ CellRegion(drv.scene, buf[i]) = CellRegion(drv.scene, drv.first[i])

\* The third call repeats the first after a call with another window, in
\* either buffer type, and the picture is not blank.
C26_Witness ==
    /\ RedrawnAsFirst
    /\ drv.pass = 3
    /\ \E i \in DOMAIN buf : buf[i] # 0
    /\ \E i \in DOMAIN buf : buf[i] \in 101 .. 199
(***************************************************************************)
(* The end of a scanline.                                                  *)
(***************************************************************************)
\* The loop over the RLs of the scanline has processed the last of them.
ScanlineDone == rz.pc = "rl" /\ rz.i_rl_in_s >= rz.i_rl_s_end

\* C27: for closed loops submitted edge by edge through add_edge_line_fill,
\* each with one fill region and one layer mask, every region's insideness
\* counter is back at zero once the last RL of a scanline has been
\* processed, so no covered span is left to flush.
C27_ScanlineEndsOutside ==
    ScanlineDone => \A i_reg \in 0 .. RL_NUM_REGIONS : arr_region_insideness[i_reg] = 0

\* A scanline that crosses the notch is done: its eight RLs took the fill
\* region in and out twice, and the last of them ended a covered span.
C27_Witness ==
    /\ ScanlineDone
    /\ drv.scene = 7
    /\ rz.i_rl_s_end - rz.i_rl_s_begin >= 8
    /\ flushed.valid /\ flushed.region = 6
    /\ flushed.ins[6] > 0
(***************************************************************************)
(* Where rasterize_to_buffer writes.                                       *)
(***************************************************************************)
\* The last step of the scan drew a span: it ended one while a region was
\* inside.
SpanDrawn == flushed.valid /\ flushed.region # RL_REGION_UNUSED

\* Cell i of the buffer lies in the column and the rows of the span drawn.
InSpanDrawn(i) ==
    /\ i % rz.x_dim = flushed.s - RzSFirst
    /\ i \div rz.x_dim >= flushed.p_begin - RzPFirst
    /\ i \div rz.x_dim < flushed.p_end - RzPFirst

\* C28: every span rasterize_to_buffer draws, into either buffer type, lies
\* in a column in [0, x_dim) and in rows within [0, y_dim), and a step of
\* the scan changes no cell outside the span it draws; so RLs at scanlines
\* outside the window write nothing and spans are clipped to the window.
C28_WritesInsideWindow ==
    /\ [](SpanDrawn =>
            /\ flushed.s - RzSFirst >= 0 /\ flushed.s - RzSFirst < rz.x_dim
            /\ flushed.p_begin - RzPFirst >= 0
            /\ flushed.p_begin < flushed.p_end
            /\ flushed.p_end - RzPFirst <= rz.y_dim)
    /\ [][rz.pc # "idle" =>
            /\ DOMAIN buf' = DOMAIN buf
            /\ \A i \in DOMAIN buf :
                  buf'[i] # buf[i] => SpanDrawn' /\ InSpanDrawn(i)']_vars

\* A span of the display drawn through the window that cuts the scene: the
\* loop enters above the window and leaves below it, and the span drawn is
\* the whole height of the window.
C28_Witness ==
    /\ SpanDrawn
    /\ rz.buffer_type = SR_BUFFER_TYPE_DISPLAY
    /\ rz.x_first = 2 /\ rz.y_dim = 5
    /\ flushed.p_begin = RzPFirst /\ flushed.p_end = RzPPastLast
    /\ arr_ptr_rl_sorted[rz.i_rl_in_s - 1].p_b > RzPPastLast
    /\ \E i \in DOMAIN buf : buf[i] # 0
(***************************************************************************)
(* How far the collision scan reads and how far it moves the ball.         *)
(***************************************************************************)
\* The locals of _advance_to_collision_axis_aligned after its row loop, for
\* the scan that has just been made.
ScanDone ==
    ScanRows(ScanStart(ball_call.before.mask_layer, FrameDeltaW,
                       DeltaW_f10(ball_call.before, ball_call.delta_ms)),
             buf, ball_call.before.v_angle_wd, arr_chunk_normal_wd, 0)

\* C29: the payload buffer of a frame is delta_w + 1 + 3 * BALL_RADIUS_FLOOR
\* rows high and every row the scan reads lies below that height, also once
\* the first true collision has moved the end of the scan; the ball is
\* advanced by no more than the frame's travel distance, and not at all when
\* the first true collision lies within the starting footprint or one row
\* past it.
C29_ScanStaysInBufferAndFrame ==
    AfterScan =>
        /\ payload_buffer.height = FrameDeltaW + 1 + 3 * BALL_RADIUS_FLOOR
        /\ DOMAIN buf = 0 .. BALL_DIAMETER * payload_buffer.height - 1
        /\ ScanDone.i_row_end_scan <= payload_buffer.height
        /\ ScanDone.w_to_step >= 0 /\ ScanDone.w_to_step <= FrameDeltaW
        /\ ScanDone.w_to_step_f10 >= 0
        /\ ScanDone.w_to_step_f10 <= DeltaW_f10(ball_call.before, ball_call.delta_ms)
        /\ Abs(ball.xw_f10 - ball_call.before.xw_f10) <= ScanDone.w_to_step_f10
        /\ Abs(ball.yw_f10 - ball_call.before.yw_f10) <= ScanDone.w_to_step_f10
        /\ (OpposedCells # {} /\ FirstOpposedRow <= BALL_DIAMETER
               => /\ ScanDone.w_to_step = 0
                  /\ ball.xw_f10 = ball_call.before.xw_f10
                  /\ ball.yw_f10 = ball_call.before.yw_f10)

\* The first true collision lay past the starting footprint: the end of the
\* scan was moved to BALL_RADIUS_FLOOR rows past it, short of the height of
\* the buffer, and the ball was advanced part of the travel distance.
C29_Witness ==
    /\ AfterScan
    /\ OpposedCells # {}
    /\ FirstOpposedRow > BALL_DIAMETER
    /\ ScanDone.i_row_end_scan = FirstOpposedRow + BALL_RADIUS_FLOOR + 1
    /\ ScanDone.w_to_step > 0 /\ ScanDone.w_to_step < FrameDeltaW
    /\ <<ball.xw_f10, ball.yw_f10>> # <<ball_call.before.xw_f10, ball_call.before.yw_f10>>

\* The first true collision lay in the last row the scan set out to read:
\* the scan went on to the last row of the buffer.
C29_WitnessLastRow ==
    /\ AfterScan
    /\ OpposedCells # {}
    /\ FirstOpposedRow = BALL_DIAMETER + FrameDeltaW - 1
    /\ ScanDone.i_row_end_scan = payload_buffer.height
(***************************************************************************)
(* SpecHole: a slow ball inside the hole's radius, advanced frame after    *)
(* frame with no other call made on it.  The frame time is 1, 100 or 341   *)
(* ms; a behaviour keeps the frame time of its first frame, or goes        *)
(* between 100 and 341 ms as it likes.  No level is loaded: the frames of  *)
(* a ball in the hole read none.  SpecHoleFair adds that advance() keeps   *)
(* being called.                                                           *)
(***************************************************************************)
HoleOffsets == {0 - 3072, 3072}
HoleDeltas == {1, 100, 341}
HoleMixedDeltas == {100, 341}

InitHole ==
    /\ RlIdle /\ ChunkConstructed /\ SrConstructed /\ drv = DrvIdle
    /\ FillsZeroed
    /\ TrUncalled
    /\ payload_buffer = PayloadBufferConstructed
    /\ ball_call = NoBallCall
    /\ arr_chunk_normal_wd = <<>>
    /\ \E delta_xw_f10 \in HoleOffsets, delta_yw_f10 \in HoleOffsets :
          ball = reset_velocity_wd_f20(
                     reset_location_f10(
                         set_location_hole_f10(BallConstructed, BallHole[1], BallHole[2]),
                         BallHole[1] + delta_xw_f10, BallHole[2] + delta_yw_f10),
                     BallPutt[1], BallPutt[2])

\* advance() up to the call of _update_stopped_tracking, for a timestep the
\* hole interaction handles.
HoleAdvance ==
    /\ ball_call.pc = "idle" /\ rz.pc = "idle"
    /\ ~AdvanceReturnsAtOnce(ball)
    /\ \E delta_ms \in HoleDeltas :
          LET h == maybe_advance_to_hole_interaction(ball, delta_ms)
          IN /\ \/ ball_call.op = "none"
                \/ delta_ms = ball_call.delta_ms
                \/ {delta_ms, ball_call.delta_ms} \subseteq HoleMixedDeltas
             /\ h.handled
             /\ ball' = h.b
             /\ ball_call' = [BallCalled("advance", "track", delta_ms, FALSE)
                                 EXCEPT !.calls = 1]
    /\ UNCHANGED <<arr_chunk_normal_wd, payload_buffer, rlVars, chunkVars, srVars,
                   fillVars, trVars, askVars>>

NextHole == HoleAdvance \/ BallAdvanceTrack

SpecHole == InitHole /\ [][NextHole]_vars
SpecHoleFair == SpecHole /\ WF_vars(NextHole)

\* The step begins an advance() on a ball that is in the hole and not
\* stopped.
InHoleAdvanceBegins ==
    /\ ball.in_hole /\ ~ball.is_stopped
    /\ ball_call.pc = "idle"
    /\ ball_call'.op = "advance" /\ ball_call' # ball_call

\* Coordinate w_after lies between w_before and the hole's w_hole.
TowardsHole(w_before, w_after, w_hole) ==
    \/ w_before <= w_after /\ w_after <= w_hole
    \/ w_hole <= w_after /\ w_after <= w_before

\* in_hole goes from set to clear only in a call that resets the ball or
\* places the hole.
InHoleUntilReset ==
    [][ball.in_hole /\ ~ball'.in_hole
          => /\ ball_call'.calls = ball_call.calls + 1
             /\ ball_call'.op \in BallResets \cup {"set_location_hole_f10"}]_vars

\* An advance() on a ball in the hole goes straight to
\* _update_stopped_tracking, changes nothing of the ball but its position,
\* leaves the payload buffer and the rasterizer alone, and with a timestep
\* of 1 .. 341 ms leaves each coordinate between where it was and the hole.
InHoleAdvanceOnlyAnimates ==
    [][InHoleAdvanceBegins
          => /\ ball_call'.pc = "track"
             /\ ball' = [ball EXCEPT !.xw_f10 = ball'.xw_f10, !.yw_f10 = ball'.yw_f10]
             /\ UNCHANGED <<payload_buffer, buf, rz, tr, arr_ptr_rl_sorted>>
             /\ (ball_call'.delta_ms \in 1 .. 341
                    => /\ TowardsHole(ball.xw_f10, ball'.xw_f10, ball.xw_hole_f10)
                       /\ TowardsHole(ball.yw_f10, ball'.yw_f10, ball.yw_hole_f10))]_vars

\* The safety half of C30, which holds with and without other calls made on
\* the ball.
C30_InHoleSafety == InHoleUntilReset /\ InHoleAdvanceOnlyAnimates

\* C30: once in_hole is set it stays set until an external reset; each
\* further advance() skips the collision step and only moves the ball
\* towards the hole centre, never farther from it on either axis, for
\* delta_ms in 1 .. 341; and under repeated advance() calls with such
\* delta_ms the ball is eventually stopped.
C30_InHoleSettles ==
    /\ InHoleUntilReset
    /\ InHoleAdvanceOnlyAnimates
    /\ (ball.in_hole ~> ball.is_stopped)
    /\ <>ball.in_hole

\* A ball captured off the hole's centre on both axes has been animated
\* towards it frame after frame and is stopped, in the hole, nearer the
\* centre than it was captured.
C30_Witness ==
    /\ ball.in_hole /\ ball.is_stopped
    /\ ball_call.op = "advance" /\ ball_call.pc = "idle"
    /\ ball_call.delta_ms = 100
    /\ ball.xw_last_shot_f10 = BallHole[1] + 3072
    /\ ball.yw_last_shot_f10 = BallHole[2] - 3072
    /\ Abs(ball.xw_f10 - ball.xw_hole_f10) < 3072
    /\ Abs(ball.yw_f10 - ball.yw_hole_f10) < 3072
====
